---------------------------- MODULE Spec2Model ----------------------------
(***************************************************************************)
(* A model of the momi2 event-tree / sum-product likelihood core:          *)
(*   src/demography.py    Demography, der_in_admixture_node,               *)
(*                        normalizing_constant                             *)
(*   src/size_history.py  TruncatedSizeHistory and its four variants       *)
(*   src/momi/simulate_inference.py        the objective f                 *)
(*   src/momi/data/compressed_counts.py    CompressedAlleleCounts          *)
(*                                                                         *)
(* Eleven specifications share the module:                                 *)
(*   SpecET     the loop of Demography.eventTree, one raw event per step   *)
(*   SpecAdmix  Demography.admixture_prob as a pure function               *)
(*   SpecSH     TruncatedSizeHistory.transition_prob                       *)
(*   SpecCtor   Demography.__init__ on arbitrary attribute sets            *)
(*   SpecCalls  a Demography instance and its own methods                  *)
(*   Spec       the life of one Demography instance, likelihoods included  *)
(*   SpecConc   two evaluations of log_likelihood_prf running together     *)
(*   SpecObj    the objective f around one likelihood evaluation           *)
(*   SpecETAny  Demography.eventTree on arbitrary lists of raw events      *)
(*   SpecPW     PiecewiseHistory.etjj and scaled_time                      *)
(*   SpecCC     CompressedAlleleCounts.from_iter and sort_configs          *)
(* Each specification holds the variables of the others at a fixed value.  *)
(***************************************************************************)
EXTENDS Integers, Sequences, FiniteSets, TLC

(***************************************************************************)
(* Bounds of the model.                                                    *)
(***************************************************************************)
\* leaves of the graphs given to the event-tree construction
MaxLeaves == 3
\* admixture events in one event list
MaxAdmix == 1
\* population identifiers are 1..MaxPops
MaxPops == 8
\* lineages of the admixture node given to admixture_prob
MaxN == 3
\* split probabilities are the multiples of 1/ProbDenom in [0, 1]
ProbDenom == 4
\* pieces of a PiecewiseHistory
MaxPieces == 2
\* lineages (n_max) of a size history; a distribution has n_max + 1 entries
MaxShN == 2
\* lineages sampled at a leaf of the Demography
MaxLineages == 1
\* configurations of the sfs given to log_likelihood_prf
MaxConfigs == 2
\* populations an arbitrary raw event may name
MaxRawPops == 4
\* configs yielded by the config_iter given to from_iter
MaxCcLen == 3
\* largest total of ancestral and derived counts in one population
MaxCount == 2

VARIABLES
    \* ---- Demography.eventTree (SpecET) ----
    etLeaves,       \* self.leaves
    etEvents,       \* self.graph['events']
    etIdx,          \* number of raw events the for loop has processed
    currEvents,     \* live population -> event owning it
    eventDict,      \* event -> [subpops, parent_pops, child_pops]
    eventEdgeList,  \* edges (event, child event)
    etStatus,       \* "loop" | "done" | "raised"
    etRet,          \* << >> or << the DiGraph returned >>
    \* ---- Demography.admixture_prob (SpecAdmix) ----
    admArgs,        \* [n_node, prob1, prob2] of the admixture node
    admResult,      \* <<"pending">>, <<"AssertionError">> or <<"ret", tensor>>
    \* ---- TruncatedSizeHistory.transition_prob (SpecSH) ----
    hist,           \* the size history object
    shScaledTime,   \* the cached_property scaled_time: None or <<value>>
    shArgs,         \* [v, axis] given to transition_prob
    shResult,       \* <<"pending">>, <<"v", v>> or <<"moran_action", t, v, axis>>
    \* ---- one Demography instance (SpecCtor, Spec) ----
    graph,          \* [nodes, edges, events]: the nx.DiGraph and graph['events']
    nd,             \* node -> attribute dict of the node
    status,         \* "new" before __init__, then "ok" or "raised"
    cache,          \* the cached_property values that get invalidated or built late
    admMemo,        \* memoize_instance of admixture_prob: node -> tensor
    pc,             \* where the running call stands; "idle" between calls
    ncFrom,         \* who called normalizing_constant: "top" or "totalSfsSum"
    prev_state,     \* local of normalizing_constant
    llpCount,       \* configurations log_likelihood_prf has gone through
    entry,          \* observation state on entry of normalizing_constant
    result,         \* outcome of the call that just ended, read by the caller
    \* ---- workers evaluating log_likelihood_prf (SpecConc) ----
    instOf,         \* worker -> the Demography instance it was given
    cNd,            \* instance -> leaf -> attribute dict of the leaf
    cCache,         \* instance -> names of the cached_property values present
    cWriter,        \* instance -> leaf -> the worker that last wrote its state
    wpc,            \* worker -> where its log_likelihood_prf stands
    wCfg,           \* worker -> the configuration of sfs it is evaluating
    wTodo,          \* worker -> nodes of state its update_state has not reached
    wSaw,           \* worker -> the leaf state its SumProduct ran on
    \* ---- the objective f of simulate_inference (SpecObj) ----
    fpc,            \* "idle", "try" inside the try block, "done" after return
    fEval,          \* how the evaluation inside the try block ended
    fRet,           \* what f returned, or that it raised
    \* ---- PiecewiseHistory.etjj (SpecPW) ----
    shEtjj,         \* <<"pending">>, <<"AssertionError">> or <<"ret", terms>>
    \* ---- CompressedAlleleCounts (SpecCC) ----
    ccInput,        \* the configs of config_iter
    ccSort,         \* the sort argument of from_iter
    ccPc,           \* "append", "init", "sort" or "done"
    uniq_values,    \* _CompressedList.uniq_values
    value2uniq,     \* _CompressedList.value2uniq
    index2uniq,     \* _CompressedList.index2uniq, then self.index2uniq
    config_array    \* self.config_array

etVars == <<etLeaves, etEvents, etIdx, currEvents, eventDict, eventEdgeList,
            etStatus, etRet>>
admVars == <<admArgs, admResult>>
shVars == <<hist, shScaledTime, shArgs, shResult>>
demoVars == <<graph, nd, status, cache, admMemo, pc, ncFrom, prev_state,
              llpCount, entry, result>>

concVars == <<instOf, cNd, cCache, cWriter, wpc, wCfg, wTodo, wSaw>>
objVars == <<fpc, fEval, fRet>>
pwVars == <<shEtjj>>
ccVars == <<ccInput, ccSort, ccPc, uniq_values, value2uniq, index2uniq, config_array>>
tailVars == <<pwVars, ccVars>>
restVars == <<objVars, tailVars>>
extVars == <<concVars, restVars>>

vars == <<etVars, admVars, shVars, demoVars, extVars>>

(***************************************************************************)
(* Generic helpers.                                                        *)
(***************************************************************************)
\* Python's None / an absent dictionary key is the empty sequence; a present
\* value x is <<x>>.
None == <<>>
Some(x) == <<x>>
IsSome(o) == o # <<>>

TheOne(S) == CHOOSE x \in S : TRUE

(***************************************************************************)
(* Demography.eventTree, src/demography.py:36-65.                          *)
(* A population is a number, an edge is <<parent, child>>, a raw event is  *)
(* a sequence of edges and is its own identifier; the synthetic event of   *)
(* leaf l is the 1-tuple <<l>>.  Python tuples built from sets (subpops,   *)
(* parent_pops) are kept as sets: their order is the set's iteration order *)
(* and no code reads it.                                                   *)
(***************************************************************************)
Pops == 1..MaxPops

LeafEvent(l) == <<l>>

\* line 39
InitCurrEvents(leaves) == [l \in leaves |-> LeafEvent(l)]

\* line 40
InitEventDict(leaves) ==
    [e \in {LeafEvent(l) : l \in leaves} |->
        [subpops |-> {e[1]}, parent_pops |-> {e[1]}, child_pops |-> <<>>]]

\* the state of the construction after lines 38-40
InitBuild(leaves) ==
    [currEvents |-> InitCurrEvents(leaves),
     eventDict |-> InitEventDict(leaves),
     eventEdgeList |-> {}]

\* line 44: parent_pops, child_pops = map(set, zip(*e))
ParentPopsOf(e) == {e[i][1] : i \in DOMAIN e}
ChildPopsOf(e) == {e[i][2] : i \in DOMAIN e}

\* line 45
ChildEventsOf(cur, e) == {cur[c] : c \in ChildPopsOf(e)}

\* lines 44-46 without len(e) == 2 in the assertion (a mutant of EventRaises)
EventRaises_AnyLength(cur, e) ==
    \/ Len(e) = 0
    \/ ~ (ChildPopsOf(e) \subseteq DOMAIN cur)
    \/ ~ ( /\ Cardinality(ParentPopsOf(e)) + Cardinality(ChildPopsOf(e)) = 3
           /\ Cardinality(ChildEventsOf(cur, e)) \in {1, 2} )

\* Lines 44-46 raise: zip(*e) of an empty event does not unpack into two
\* sets (ValueError), a child population that is not live is a KeyError at
\* line 45, and line 46 is the assertion.
EventRaises(cur, e) ==
    \/ Len(e) = 0
    \/ ~ (ChildPopsOf(e) \subseteq DOMAIN cur)
    \/ ~ ( /\ Len(e) = 2
           /\ Cardinality(ParentPopsOf(e)) + Cardinality(ChildPopsOf(e)) = 3
           /\ Cardinality(ChildEventsOf(cur, e)) \in {1, 2} )

\* lines 48-50, with the difference_update left out (a mutant of SubPopsOf)
SubPopsOf_KeepConsumed(st, e) ==
    (UNION {st.eventDict[c].subpops : c \in ChildEventsOf(st.currEvents, e)})
        \cup ParentPopsOf(e)

\* lines 48-50
SubPopsOf(st, e) ==
    ((UNION {st.eventDict[c].subpops : c \in ChildEventsOf(st.currEvents, e)})
        \ ChildPopsOf(e)) \cup ParentPopsOf(e)

\* lines 52-56 without the deletions of lines 54-55 (a mutant of ProcessEvent)
ProcessEvent_NoDelete(st, e) ==
    LET cur == st.currEvents
        sub_pops == SubPopsOf(st, e)
    IN  [currEvents |->
            [p \in (DOMAIN cur) \cup sub_pops |->
                IF p \in sub_pops THEN e ELSE cur[p]],
         eventDict |->
            [x \in (DOMAIN st.eventDict) \cup {e} |->
                IF x = e
                THEN [subpops |-> sub_pops,
                      parent_pops |-> ParentPopsOf(e),
                      child_pops |-> [c \in ChildPopsOf(e) |-> cur[c]]]
                ELSE st.eventDict[x]],
         eventEdgeList |->
            st.eventEdgeList \cup {<<e, c>> : c \in ChildEventsOf(cur, e)}]

\* lines 52-56: the body of the loop for an event that passes line 46
ProcessEvent(st, e) ==
    LET cur == st.currEvents
        child_pops == ChildPopsOf(e)
        child_events == ChildEventsOf(cur, e)
        sub_pops == SubPopsOf(st, e)
    IN  [currEvents |->
            [p \in ((DOMAIN cur) \cup sub_pops) \ child_pops |->
                IF p \in sub_pops THEN e ELSE cur[p]],
         eventDict |->
            [x \in (DOMAIN st.eventDict) \cup {e} |->
                IF x = e
                THEN [subpops |-> sub_pops,
                      parent_pops |-> ParentPopsOf(e),
                      child_pops |-> [c \in child_pops |-> cur[c]]]
                ELSE st.eventDict[x]],
         eventEdgeList |->
            st.eventEdgeList \cup {<<e, c>> : c \in child_events}]

\* lines 57-65: the DiGraph with its root; line 61 asserts one live population
FinishRaises(st) == Cardinality(DOMAIN st.currEvents) # 1

FinishBuild(st) ==
    [node |-> st.eventDict,
     edges |-> st.eventEdgeList,
     root |-> st.currEvents[TheOne(DOMAIN st.currEvents)]]

\* The whole property: << >> when it raises, << tree >> when it returns.
RECURSIVE RunEventLoop(_, _, _)
RunEventLoop(st, events, i) ==
    IF i > Len(events) THEN Some(st)
    ELSE IF EventRaises(st.currEvents, events[i]) THEN None
    ELSE RunEventLoop(ProcessEvent(st, events[i]), events, i + 1)

EventTreeOf(leaves, events) ==
    LET r == RunEventLoop(InitBuild(leaves), events, 1)
    IN  IF r = None THEN None
        ELSE IF FinishRaises(r[1]) THEN None
        ELSE Some(FinishBuild(r[1]))

(***************************************************************************)
(* The graphs given to the construction.  The event list comes from the    *)
(* parser (parse_ms.to_nx, src/demography.py:17), which is not part of the *)
(* sources; the lists below are every temporally ordered list of merges    *)
(* and admixtures over the leaves 1..n that ends in one population, with   *)
(* populations numbered in order of creation, and every prefix of such a   *)
(* list (a prefix that stops early leaves several roots).                  *)
(***************************************************************************)
Merge(p, c1, c2) == << <<p, c1>>, <<p, c2>> >>
Admix(c, p1, p2) == << <<p1, c>>, <<p2, c>> >>

RECURSIVE WFEventLists(_, _, _)
WFEventLists(live, fresh, adm) ==
    (IF Cardinality(live) = 1 THEN {<<>>} ELSE {})
    \cup (IF fresh <= MaxPops
          THEN UNION {
                 {<<Merge(fresh, pr[1], pr[2])>> \o rest :
                    rest \in WFEventLists((live \ {pr[1], pr[2]}) \cup {fresh},
                                          fresh + 1, adm)} :
                 pr \in {q \in live \X live : q[1] < q[2]}}
          ELSE {})
    \cup (IF adm > 0 /\ fresh + 1 <= MaxPops
          THEN UNION {
                 {<<Admix(c, fresh, fresh + 1)>> \o rest :
                    rest \in WFEventLists((live \ {c}) \cup {fresh, fresh + 1},
                                          fresh + 2, adm - 1)} :
                 c \in live}
          ELSE {})

Prefixes(s) == {SubSeq(s, 1, k) : k \in 0..Len(s)}

GraphInputs ==
    UNION {
        {[leaves |-> 1..n, events |-> ev] :
            ev \in UNION {Prefixes(w) : w \in WFEventLists(1..n, n + 1, MaxAdmix)}} :
        n \in 1..MaxLeaves}

\* The claim's hypothesis, replayed without the construction's bookkeeping:
\* every event is a merge of two live populations into a new one or an
\* admixture of one live population into two new ones, and one population
\* is live at the end.
RECURSIVE WellFormedFrom(_, _, _, _)
WellFormedFrom(live, used, events, i) ==
    IF i > Len(events) THEN Cardinality(live) = 1
    ELSE LET e == events[i]
             P == ParentPopsOf(e)
             C == ChildPopsOf(e)
         IN  /\ Len(e) = 2
             /\ C \subseteq live
             /\ P \cap used = {}
             /\ \/ Cardinality(P) = 1 /\ Cardinality(C) = 2
                \/ Cardinality(P) = 2 /\ Cardinality(C) = 1
             /\ WellFormedFrom((live \ C) \cup P, used \cup P, events, i + 1)

WellFormed(leaves, events) == WellFormedFrom(leaves, leaves, events, 1)

(***************************************************************************)
(* The idle values of each group of variables.                             *)
(***************************************************************************)
IdleET ==
    /\ etLeaves = {}
    /\ etEvents = <<>>
    /\ etIdx = 0
    /\ currEvents = <<>>
    /\ eventDict = <<>>
    /\ eventEdgeList = {}
    /\ etStatus = "idle"
    /\ etRet = None

IdleAdmix ==
    /\ admArgs = None
    /\ admResult = None

IdleSH ==
    /\ hist = None
    /\ shScaledTime = None
    /\ shArgs = None
    /\ shResult = None

IdleDemo ==
    /\ graph = None
    /\ nd = None
    /\ status = "none"
    /\ cache = None
    /\ admMemo = None
    /\ pc = "none"
    /\ ncFrom = "none"
    /\ prev_state = None
    /\ llpCount = 0
    /\ entry = None
    /\ result = None

IdleConc ==
    /\ instOf = None
    /\ cNd = None
    /\ cCache = None
    /\ cWriter = None
    /\ wpc = None
    /\ wCfg = None
    /\ wTodo = None
    /\ wSaw = None

IdleObj ==
    /\ fpc = None
    /\ fEval = None
    /\ fRet = None

IdleEtjj == shEtjj = None

IdleCC ==
    /\ ccInput = None
    /\ ccSort = None
    /\ ccPc = None
    /\ uniq_values = None
    /\ value2uniq = None
    /\ index2uniq = None
    /\ config_array = None

IdleTail == IdleEtjj /\ IdleCC

IdleRest == IdleObj /\ IdleTail

IdleExt == IdleConc /\ IdleRest

(***************************************************************************)
(* SpecET: the construction, one raw event per step.                       *)
(***************************************************************************)
InitET ==
    /\ \E g \in GraphInputs :
        /\ etLeaves = g.leaves
        /\ etEvents = g.events
        /\ currEvents = InitCurrEvents(g.leaves)
        /\ eventDict = InitEventDict(g.leaves)
    /\ eventEdgeList = {}
    /\ etIdx = 0
    /\ etStatus = "loop"
    /\ etRet = None
    /\ IdleAdmix
    /\ IdleSH
    /\ IdleDemo
    /\ IdleExt

BuildState == [currEvents |-> currEvents, eventDict |-> eventDict,
               eventEdgeList |-> eventEdgeList]

\* lines 42-56, one iteration
ET_ProcessEvent ==
    /\ etStatus = "loop"
    /\ etIdx < Len(etEvents)
    /\ LET e == etEvents[etIdx + 1] IN
        IF EventRaises(currEvents, e)
        THEN /\ etStatus' = "raised"
             /\ UNCHANGED <<currEvents, eventDict, eventEdgeList>>
        ELSE LET st == ProcessEvent(BuildState, e) IN
             /\ currEvents' = st.currEvents
             /\ eventDict' = st.eventDict
             /\ eventEdgeList' = st.eventEdgeList
             /\ etStatus' = "loop"
    /\ etIdx' = etIdx + 1
    /\ UNCHANGED <<etLeaves, etEvents, etRet>>
    /\ UNCHANGED <<admVars, shVars, demoVars, extVars>>

\* lines 57-65
ET_Finish ==
    /\ etStatus = "loop"
    /\ etIdx = Len(etEvents)
    /\ IF FinishRaises(BuildState)
       THEN etStatus' = "raised" /\ etRet' = None
       ELSE etStatus' = "done" /\ etRet' = Some(FinishBuild(BuildState))
    /\ UNCHANGED <<etLeaves, etEvents, etIdx, currEvents, eventDict, eventEdgeList>>
    /\ UNCHANGED <<admVars, shVars, demoVars, extVars>>

NextET == ET_ProcessEvent \/ ET_Finish

SpecET == InitET /\ [][NextET]_vars

(***************************************************************************)
(* C1.  For a well-formed demographic graph the construction does not      *)
(* raise, and when it has returned: exactly one population is live in      *)
(* currEvents; the event owning it is the root of the returned tree and is *)
(* the only event without a parent event; the root's subpops is exactly    *)
(* that one population.                                                    *)
(***************************************************************************)
EventsWithParent == {ed[2] : ed \in eventEdgeList}

C1_SingleRoot ==
    WellFormed(etLeaves, etEvents) =>
        /\ etStatus # "raised"
        /\ etStatus = "done" =>
            /\ Cardinality(DOMAIN currEvents) = 1
            /\ LET rootPop == TheOne(DOMAIN currEvents)
                   tree == etRet[1]
               IN  /\ tree.root = currEvents[rootPop]
                   /\ (DOMAIN tree.node) \ EventsWithParent = {tree.root}
                   /\ tree.node[tree.root].subpops = {rootPop}

\* a well-formed graph with an admixture and a merge of clusters, built
C1_Witness ==
    /\ etStatus = "done"
    /\ WellFormed(etLeaves, etEvents)
    /\ Len(etEvents) >= 3
    /\ \E i \in DOMAIN etEvents : Cardinality(ParentPopsOf(etEvents[i])) = 2

(***************************************************************************)
(* Exact arithmetic for the floating-point values of admixture_prob.  A    *)
(* value is a fraction <<numerator, denominator>> in lowest terms with a   *)
(* positive denominator; the rounding of the floats (and of fftconvolve)   *)
(* is left out, which is the "up to floating tolerance" of the tests.      *)
(***************************************************************************)
RECURSIVE GCD(_, _)
GCD(a, b) == IF b = 0 THEN a ELSE GCD(b, a % b)

Abs(x) == IF x < 0 THEN -x ELSE x

Rat(n, d) == LET g == GCD(Abs(n), d) IN <<n \div g, d \div g>>

RZero == Rat(0, 1)
ROne == Rat(1, 1)

RAdd(x, y) == Rat(x[1] * y[2] + y[1] * x[2], x[2] * y[2])
RMul(x, y) == Rat(x[1] * y[1], x[2] * y[2])

RECURSIVE RPow(_, _)
RPow(x, k) == IF k = 0 THEN ROne ELSE RMul(x, RPow(x, k - 1))

\* the sum of f[0], ..., f[n]
RECURSIVE RSumTo(_, _)
RSumTo(f, n) == IF n < 0 THEN RZero ELSE RAdd(RSumTo(f, n - 1), f[n])

\* scipy.misc.comb(N, k): 0 outside 0 <= k <= N
RECURSIVE Comb(_, _)
Comb(N, k) ==
    IF k < 0 \/ k > N THEN 0
    ELSE IF k = 0 \/ k = N THEN 1
    ELSE Comb(N - 1, k - 1) + Comb(N - 1, k)

(***************************************************************************)
(* der_in_admixture_node, src/demography.py:211-230.                       *)
(***************************************************************************)
\* lines 221-226, with anc_in_parent taken from the lineages inherited
\* instead of the node's lineages (a mutant of ToConvolve)
ToConvolve_AncFromInherited(n_node, n_from_parent, der_in_parent) ==
    [der_from_parent \in 0..n_from_parent |->
        Rat(Comb(der_in_parent, der_from_parent)
              * Comb(n_from_parent - der_in_parent, n_from_parent - der_from_parent),
            Comb(n_node, n_from_parent))]

\* lines 221-226: one parent's hypergeometric kernel
ToConvolve(n_node, n_from_parent, der_in_parent) ==
    LET anc_in_parent == n_node - der_in_parent IN
    [der_from_parent \in 0..n_from_parent |->
        Rat(Comb(der_in_parent, der_from_parent)
              * Comb(anc_in_parent, n_from_parent - der_from_parent),
            Comb(n_node, n_from_parent))]

\* line 228: the full convolution of x (indices 0..nx) with y (indices 0..ny)
Convolve(x, nx, y, ny) ==
    [c \in 0..(nx + ny) |->
        RSumTo([i \in 0..nx |->
                  IF c - i \in 0..ny THEN RMul(x[i], y[c - i]) ELSE RZero], nx)]

\* lines 218-230; the assertion of line 229 holds by the length of Convolve
der_in_admixture_node(n_from_1, n_from_2, der_in_1, der_in_2) ==
    LET n_node == n_from_1 + n_from_2 IN
    Convolve(ToConvolve(n_node, n_from_1, der_in_1), n_from_1,
             ToConvolve(n_node, n_from_2, der_in_2), n_from_2)

(***************************************************************************)
(* Demography.admixture_prob, src/demography.py:147-178.                   *)
(***************************************************************************)
\* line 177 with the two probabilities exchanged (a mutant of AdmixtureTerm)
AdmixtureTerm_SwappedProbs(n_node, prob1, prob2, n_from_1, child_der, par1_der, par2_der) ==
    LET n_from_2 == n_node - n_from_1 IN
    RMul(RMul(Rat(Comb(n_node, n_from_1), 1),
              RMul(RPow(prob2, n_from_1), RPow(prob1, n_from_2))),
         der_in_admixture_node(n_from_1, n_from_2, par1_der, par2_der)[child_der])

\* lines 176-177: the term of one n_from_1
AdmixtureTerm(n_node, prob1, prob2, n_from_1, child_der, par1_der, par2_der) ==
    LET n_from_2 == n_node - n_from_1 IN
    RMul(RMul(Rat(Comb(n_node, n_from_1), 1),
              RMul(RPow(prob1, n_from_1), RPow(prob2, n_from_2))),
         der_in_admixture_node(n_from_1, n_from_2, par1_der, par2_der)[child_der])

\* lines 169-177: ret[child_der][par1_der][par2_der]
AdmixtureTensor(n_node, prob1, prob2) ==
    [child_der \in 0..n_node |->
        [par1_der \in 0..n_node |->
            [par2_der \in 0..n_node |->
                RSumTo([n_from_1 \in 0..n_node |->
                          AdmixtureTerm(n_node, prob1, prob2, n_from_1,
                                        child_der, par1_der, par2_der)],
                       n_node)]]]

\* line 164 without the assertion (a mutant of SplitProbsOK)
SplitProbsOK_NoAssert(prob1, prob2) == TRUE

\* line 164
SplitProbsOK(prob1, prob2) == RAdd(prob1, prob2) = ROne

\* lines 157-178
admixture_prob(n_node, prob1, prob2) ==
    IF ~ SplitProbsOK(prob1, prob2)
    THEN <<"AssertionError">>
    ELSE <<"ret", AdmixtureTensor(n_node, prob1, prob2)>>

(***************************************************************************)
(* SpecAdmix: admixture_prob applied to every node size and every pair of  *)
(* split probabilities of the bounds.                                      *)
(***************************************************************************)
Probs == {Rat(k, ProbDenom) : k \in 0..ProbDenom}

InitAdmix ==
    /\ \E n \in 1..MaxN, p1 \in Probs, p2 \in Probs :
          admArgs = [n_node |-> n, prob1 |-> p1, prob2 |-> p2]
    /\ admResult = <<"pending">>
    /\ IdleET
    /\ IdleSH
    /\ IdleDemo
    /\ IdleExt

Admix_Call ==
    /\ admResult = <<"pending">>
    /\ admResult' = admixture_prob(admArgs.n_node, admArgs.prob1, admArgs.prob2)
    /\ UNCHANGED admArgs
    /\ UNCHANGED <<etVars, shVars, demoVars, extVars>>

NextAdmix == Admix_Call

SpecAdmix == InitAdmix /\ [][NextAdmix]_vars

AdmReturned == Len(admResult) = 2

(***************************************************************************)
(* C6.  When admixture_prob returns (the split probabilities sum to 1),    *)
(* the entries of the tensor summed over child_derived are 1 for every     *)
(* pair (parent1_derived, parent2_derived) in 0..n x 0..n.                 *)
(***************************************************************************)
C6_SumsToOne ==
    AdmReturned =>
        LET n == admArgs.n_node
            T == admResult[2]
        IN  \A a \in 0..n, b \in 0..n :
                RSumTo([c \in 0..n |-> T[c][a][b]], n) = ROne

C6_Witness ==
    /\ AdmReturned
    /\ admArgs.n_node >= 2
    /\ admArgs.prob1 \notin {RZero, ROne}

(***************************************************************************)
(* C7.  For one lineage (n = 1) the entry at (child c, parent1 a,          *)
(* parent2 b) is p1*[c = a] + p2*[c = b]; for p1 = 1/2 the tensor in the   *)
(* order (child, parent1, parent2) is                                      *)
(* [[[1, 1/2], [1/2, 0]], [[0, 1/2], [1/2, 1]]].                           *)
(***************************************************************************)
Indicator(b) == IF b THEN ROne ELSE RZero

HalfTensor == << << <<Rat(1, 1), Rat(1, 2)>>, <<Rat(1, 2), Rat(0, 1)>> >>,
                 << <<Rat(0, 1), Rat(1, 2)>>, <<Rat(1, 2), Rat(1, 1)>> >> >>

C7_SingleLineage ==
    (AdmReturned /\ admArgs.n_node = 1) =>
        LET T == admResult[2]
            p1 == admArgs.prob1
            p2 == admArgs.prob2
        IN  /\ \A c \in 0..1, a \in 0..1, b \in 0..1 :
                 T[c][a][b] = RAdd(RMul(p1, Indicator(c = a)),
                                   RMul(p2, Indicator(c = b)))
            /\ p1 = Rat(1, 2) =>
                 \A c \in 0..1, a \in 0..1, b \in 0..1 :
                    T[c][a][b] = HalfTensor[c + 1][a + 1][b + 1]

C7_Witness ==
    /\ AdmReturned
    /\ admArgs.n_node = 1
    /\ admArgs.prob1 = Rat(1, 2)

(***************************************************************************)
(* Floating-point values of src/size_history.py, by class.  The code's     *)
(* decisions (scaled_time == 0.0, tau == float('inf')) read only the class *)
(* of a value: zero, a positive or negative finite number, an infinity, or *)
(* NaN.  The operators are IEEE arithmetic on the classes, as numpy        *)
(* computes it (a division by zero gives an infinity or NaN, no exception).*)
(***************************************************************************)
FloatClasses == {"zero", "pos", "neg", "inf", "ninf", "nan"}

FNeg(x) ==
    CASE x = "pos" -> "neg" [] x = "neg" -> "pos"
      [] x = "inf" -> "ninf" [] x = "ninf" -> "inf"
      [] OTHER -> x

FIsNegative(x) == x \in {"neg", "ninf"}
FIsInfinite(x) == x \in {"inf", "ninf"}

\* x * y
FMul(x, y) ==
    IF x = "nan" \/ y = "nan" THEN "nan"
    ELSE IF (x = "zero" /\ FIsInfinite(y)) \/ (FIsInfinite(x) /\ y = "zero") THEN "nan"
    ELSE IF x = "zero" \/ y = "zero" THEN "zero"
    ELSE LET mag == IF FIsInfinite(x) \/ FIsInfinite(y) THEN "inf" ELSE "pos"
         IN  IF FIsNegative(x) = FIsNegative(y) THEN mag ELSE FNeg(mag)

\* x / y, the divisor's zero being +0.0
FDiv(x, y) ==
    IF x = "nan" \/ y = "nan" THEN "nan"
    ELSE IF x = "zero" /\ y = "zero" THEN "nan"
    ELSE IF FIsInfinite(x) /\ FIsInfinite(y) THEN "nan"
    ELSE IF x = "zero" \/ FIsInfinite(y) THEN "zero"
    ELSE LET mag == IF y = "zero" \/ FIsInfinite(x) THEN "inf" ELSE "pos"
         IN  IF FIsNegative(x) = FIsNegative(y) THEN mag ELSE FNeg(mag)

\* x + y for values that are not negative (durations, scaled times) or NaN
FAdd(x, y) ==
    IF x = "nan" \/ y = "nan" THEN "nan"
    ELSE IF x = "inf" \/ y = "inf" THEN "inf"
    ELSE IF x = "zero" THEN y
    ELSE x

\* sum([...]) of a sequence of such values
RECURSIVE FSum(_)
FSum(s) == IF s = <<>> THEN "zero" ELSE FAdd(s[1], FSum(Tail(s)))

\* log(N_bottom / N_top) for positive sizes, by their order
FLogRatio(order) ==
    CASE order = "lt" -> "neg" [] order = "eq" -> "zero" [] order = "gt" -> "pos"

\* expm1d, src/size_history.py:157-167: expm1d_taylor(0.0) is 1.0, and
\* otherwise expm1(x)/x
expm1d(x) ==
    CASE x = "zero" -> "pos"
      [] x = "pos" -> "pos"
      [] x = "neg" -> "pos"
      [] x = "inf" -> "nan"
      [] x = "ninf" -> "zero"
      [] x = "nan" -> "nan"

(***************************************************************************)
(* The size histories.  tau is zero, positive or infinite.                 *)
(***************************************************************************)
Durations == {"zero", "pos", "inf"}

\* ConstantTruncatedSizeHistory.__init__, lines 81-85; N > 0 or it raises
ConstantHistory(n_max, tau) ==
    [variant |-> "Constant", n_max |-> n_max, tau |-> tau, N |-> "pos"]

\* ExponentialTruncatedSizeHistory.__init__, lines 174-178; order compares
\* N_bottom with N_top
ExponentialHistory(n_max, tau, order) ==
    [variant |-> "Exponential", n_max |-> n_max, tau |-> tau,
     N_bottom |-> "pos", N_top |-> "pos",
     growth_rate |-> FDiv(FLogRatio(order), tau)]

\* FunctionalTruncatedSizeHistory.__init__, lines 207-213; the rate f is
\* the constant 0 or a positive constant
FunctionalHistory(n_max, tau, f) ==
    [variant |-> "Functional", n_max |-> n_max, tau |-> tau, f |-> f]

SimpleHistories(n_max) ==
    {ConstantHistory(n_max, tau) : tau \in Durations}
    \cup {ExponentialHistory(n_max, tv[1], tv[2]) :
            tv \in Durations \X {"lt", "eq", "gt"}}
    \cup {FunctionalHistory(n_max, tv[1], tv[2]) :
            tv \in Durations \X {"zeroRate", "posRate"}}

\* PiecewiseHistory.__init__, lines 239-244 (the pieces share n_max)
PiecewiseHistory(pieces) ==
    [variant |-> "Piecewise", n_max |-> pieces[1].n_max,
     tau |-> FSum([i \in DOMAIN pieces |-> pieces[i].tau]),
     pieces |-> pieces]

PieceSeqs(n_max) ==
    UNION {[1..k -> SimpleHistories(n_max)] : k \in 1..MaxPieces}

Histories(n_max) ==
    SimpleHistories(n_max) \cup {PiecewiseHistory(ps) : ps \in PieceSeqs(n_max)}

\* FunctionalTruncatedSizeHistory._R(tau), lines 215-216: quad(f, 0, tau)
FunctionalR(f, tau) ==
    IF tau = "zero" \/ f = "zeroRate" THEN "zero" ELSE tau

\* scaled_time of a history that is not piecewise:
\* Constant lines 103-109, Exponential 197-203, Functional 233-235
SimpleScaledTime(h) ==
    CASE h.variant = "Constant" -> FDiv(h.tau, h.N)
      [] h.variant = "Exponential" ->
            FDiv(FMul(expm1d(FMul(h.growth_rate, h.tau)), h.tau), h.N_bottom)
      [] h.variant = "Functional" -> FunctionalR(h.f, h.tau)

\* PiecewiseHistory.scaled_time, lines 262-266
scaled_time(h) ==
    IF h.variant = "Piecewise"
    THEN IF h.tau = "inf" THEN h.tau
         ELSE FSum([i \in DOMAIN h.pieces |-> SimpleScaledTime(h.pieces[i])])
    ELSE SimpleScaledTime(h)

\* moran_action(t, v, axis), src/moran_model.py:25-36, left uninterpreted
moran_action(t, v, axis) == <<"moran_action", t, v, axis>>

\* TruncatedSizeHistory.transition_prob, lines 72-76
transition_prob(st, v, axis) ==
    IF st = "zero" THEN <<"v", v>> ELSE moran_action(st, v, axis)

(***************************************************************************)
(* SpecSH: transition_prob of every history of the bounds on the one-hot   *)
(* distributions over 0..n_max.                                            *)
(***************************************************************************)
OneHot(n, k) == [i \in 0..n |-> IF i = k THEN 1 ELSE 0]

InitSH ==
    /\ \E n \in 1..MaxShN :
        /\ hist \in Histories(n)
        /\ \E k \in 0..n, axis \in {0, 1} :
              shArgs = [v |-> OneHot(n, k), axis |-> axis]
    /\ shScaledTime = None
    /\ shResult = <<"pending">>
    /\ IdleET
    /\ IdleAdmix
    /\ IdleDemo
    /\ IdleExt

\* reading the cached_property scaled_time
SH_ScaledTime ==
    /\ shScaledTime = None
    /\ shResult = <<"pending">>
    /\ shScaledTime' = Some(scaled_time(hist))
    /\ UNCHANGED <<hist, shArgs, shResult>>
    /\ UNCHANGED <<etVars, admVars, demoVars, extVars>>

\* transition_prob(v, axis)
SH_TransitionProb ==
    /\ shResult = <<"pending">>
    /\ LET st == IF IsSome(shScaledTime) THEN shScaledTime[1] ELSE scaled_time(hist)
       IN  /\ shScaledTime' = Some(st)
           /\ shResult' = transition_prob(st, shArgs.v, shArgs.axis)
    /\ UNCHANGED <<hist, shArgs>>
    /\ UNCHANGED <<etVars, admVars, demoVars, extVars>>

NextSH == SH_ScaledTime \/ SH_TransitionProb

SpecSH == InitSH /\ [][NextSH]_vars

(***************************************************************************)
(* C8.  For every variant, transition_prob of a history of duration        *)
(* tau = 0 returns the input v itself and does not call moran_action.      *)
(***************************************************************************)
C8_TauZeroIdentity ==
    (shResult # <<"pending">> /\ hist.tau = "zero") =>
        shResult = <<"v", shArgs.v>>

(***************************************************************************)
(* The Demography graph, src/demography.py:14-132.                         *)
(***************************************************************************)
EdgesOfEvents(events) ==
    UNION {{events[i][j] : j \in DOMAIN events[i]} : i \in DOMAIN events}

\* the nx.DiGraph whose edges are the edges of the events
GraphOf(leaves, events) ==
    LET E == EdgesOfEvents(events) IN
    [nodes |-> leaves \cup {ed[1] : ed \in E} \cup {ed[2] : ed \in E},
     edges |-> E,
     events |-> events]

ChildrenOf(g, v) == {ed[2] : ed \in {x \in g.edges : x[1] = v}}
ParentsOf(g, v) == {ed[1] : ed \in {x \in g.edges : x[2] = v}}

\* leaves, lines 105-107: the nodes of out-degree 0
LeavesOf(g) == {v \in g.nodes : ChildrenOf(g, v) = {}}

\* root, lines 95-99: the nodes of in-degree 0; line 98 asserts there is one
RootsOf(g) == {v \in g.nodes : ParentsOf(g, v) = {}}
RootRaises(g) == Cardinality(RootsOf(g)) # 1

RECURSIVE SumOver(_, _)
SumOver(f, S) ==
    IF S = {} THEN 0
    ELSE LET x == TheOne(S) IN f[x] + SumOver(f, S \ {x})

\* n_lineages_at_node, lines 113-123 (raises when root does)
RECURSIVE NLineagesAt(_, _, _)
NLineagesAt(g, ndv, v) ==
    IF v \in LeavesOf(g) THEN ndv[v].lineages[1]
    ELSE SumOver([c \in ChildrenOf(g, v) |-> NLineagesAt(g, ndv, c)],
                 ChildrenOf(g, v))

\* leaves_subtended_by, lines 130-132
RECURSIVE DescendantsOf(_, _)
DescendantsOf(g, v) ==
    {v} \cup UNION {DescendantsOf(g, c) : c \in ChildrenOf(g, v)}

LeavesSubtendedBy(g, v) == LeavesOf(g) \cap DescendantsOf(g, v)

\* n_derived_subtended_by, lines 125-128: a KeyError when a leaf has no
\* 'derived'
NDerivedRaises(g, ndv) == \E l \in LeavesOf(g) : ndv[l].derived = None

NDerivedSubtendedBy(g, ndv) ==
    [v \in g.nodes |->
        SumOver([l \in LeavesSubtendedBy(g, v) |-> ndv[l].derived[1]],
                LeavesSubtendedBy(g, v))]

\* The graphs a Demography is built on: one leaf; two leaves that merge; a
\* leaf that admixes into two populations that merge; two leaves and an
\* empty event list (a malformed list: two roots).
DemoGraphs ==
    { GraphOf({1}, <<>>),
      GraphOf({1, 2}, <<Merge(3, 1, 2)>>),
      GraphOf({1}, <<Admix(1, 2, 3), Merge(4, 2, 3)>>),
      GraphOf({1, 2}, <<>>) }

\* the nodes with two parents carry 'splitprobs'
AdmixtureNodes(g) == {v \in g.nodes : Cardinality(ParentsOf(g, v)) = 2}

SplitProbChoices(g) ==
    [AdmixtureNodes(g) -> Probs \X Probs]

LineageChoices(g) ==
    [LeavesOf(g) -> {None} \cup {Some(k) : k \in 1..MaxLineages}]

\* the attribute dicts of the nodes of the graph given to __init__
NodeData(g, lin, mdl, mfunc, sp) ==
    [v \in g.nodes |->
        [lineages |-> IF v \in LeavesOf(g) THEN lin[v] ELSE None,
         model |-> mdl[v],
         model_func |-> mfunc[v],
         splitprobs |->
            IF v \in AdmixtureNodes(g)
            THEN LET ps == ParentsOf(g, v)
                     p1 == CHOOSE p \in ps : \A q \in ps : p <= q
                 IN  Some([p \in ps |-> IF p = p1 THEN sp[v][1] ELSE sp[v][2]])
            ELSE None,
         derived |-> None,
         ancestral |-> None]]

EmptyCache ==
    [node_data |-> None, n_derived_subtended_by |-> None,
     eventTree |-> None, totalSfsSum |-> None]

Invalidate(c, names) ==
    [k \in DOMAIN c |-> IF k \in names THEN None ELSE c[k]]

(***************************************************************************)
(* Demography.__init__, src/demography.py:25-34.                           *)
(***************************************************************************)
\* line 28
LineagesMissing(g, ndv) == \E k \in LeavesOf(g) : ndv[k].lineages = None

\* line 31
NeedsModel(ndv, v) == ndv[v].model_func /\ ~ ndv[v].model

\* lines 30-32: the models resolved from model_func
ResolveModels(ndv) ==
    [v \in DOMAIN ndv |->
        IF NeedsModel(ndv, v) THEN [ndv[v] EXCEPT !.model = TRUE] ELSE ndv[v]]

\* line 33, checking the leaves only (a mutant of ModelMissing)
ModelMissing_LeavesOnly(g, ndv) == \E k \in LeavesOf(g) : ~ ndv[k].model

\* line 33
ModelMissing(g, ndv) == \E k \in g.nodes : ~ ndv[k].model

\* lines 25-34: the attribute dicts after the call and whether it raised
Construct(g, ndv) ==
    IF LineagesMissing(g, ndv)
    THEN [nd |-> ndv, raised |-> TRUE]
    ELSE IF (\E v \in g.nodes : NeedsModel(ndv, v)) /\ RootRaises(g)
    THEN [nd |-> ndv, raised |-> TRUE]
    ELSE [nd |-> ResolveModels(ndv),
          raised |-> ModelMissing(g, ResolveModels(ndv))]

\* Demography(graph)
Demo_Construct ==
    /\ status = "new"
    /\ pc = "idle"
    /\ LET r == Construct(graph, nd) IN
        /\ nd' = r.nd
        /\ status' = IF r.raised THEN "raised" ELSE "ok"
        /\ result' = [op |-> "__init__",
                      outcome |-> IF r.raised THEN "raised" ELSE "returned",
                      exc |-> "__init__", nodes |-> {}]
    /\ cache' = [cache EXCEPT !.node_data = Some("dict")]
    /\ pc' = "ret"
    /\ UNCHANGED <<graph, admMemo, ncFrom, prev_state, llpCount, entry>>
    /\ UNCHANGED <<etVars, admVars, shVars, extVars>>

\* the caller takes the outcome of the call that ended
Demo_Return ==
    /\ pc = "ret"
    /\ pc' = "idle"
    /\ result' = None
    /\ entry' = None
    /\ UNCHANGED <<graph, nd, status, cache, admMemo, ncFrom, prev_state, llpCount>>
    /\ UNCHANGED <<etVars, admVars, shVars, extVars>>

(***************************************************************************)
(* SpecCtor: __init__ on every choice of 'lineages', 'model' and           *)
(* 'model_func' over the nodes of the graphs.                              *)
(***************************************************************************)
InitDemoWith(g, ndv) ==
    /\ graph = g
    /\ nd = ndv
    /\ status = "new"
    /\ cache = EmptyCache
    /\ admMemo = <<>>
    /\ pc = "idle"
    /\ ncFrom = "none"
    /\ prev_state = None
    /\ llpCount = 0
    /\ entry = None
    /\ result = None

ValidSplit == <<Rat(1, ProbDenom), Rat(ProbDenom - 1, ProbDenom)>>

InitCtor ==
    /\ \E g \in DemoGraphs :
        \E lin \in LineageChoices(g),
           mdl \in [g.nodes -> BOOLEAN], mfunc \in [g.nodes -> BOOLEAN] :
            InitDemoWith(g, NodeData(g, lin, mdl, mfunc,
                                     [v \in AdmixtureNodes(g) |-> ValidSplit]))
    /\ IdleET
    /\ IdleAdmix
    /\ IdleSH
    /\ IdleExt

NextCtor == Demo_Construct \/ Demo_Return

SpecCtor == InitCtor /\ [][NextCtor]_vars

(***************************************************************************)
(* C4.  Constructing a Demography raises if a leaf lacks 'lineages', or if *)
(* a node has neither 'model' nor a 'model_func' to resolve one from; when *)
(* construction succeeds every leaf has 'lineages' and every node 'model'. *)
(* (A node that lacks 'model' after the resolution is one that had neither *)
(* attribute: the resolution sets 'model' wherever 'model_func' is.)       *)
(***************************************************************************)
C4_ConstructorChecks ==
    /\ (status # "new"
          /\ ( \/ \E k \in LeavesOf(graph) : nd[k].lineages = None
               \/ \E v \in graph.nodes : ~ nd[v].model /\ ~ nd[v].model_func ))
        => status = "raised"
    /\ status = "ok" =>
        /\ \A k \in LeavesOf(graph) : nd[k].lineages # None
        /\ \A v \in graph.nodes : nd[v].model

\* an internal node got its model from model_func and construction succeeded
C4_Witness ==
    /\ status = "ok"
    /\ \E v \in graph.nodes \ LeavesOf(graph) : nd[v].model_func /\ nd[v].model

(***************************************************************************)
(* Demography.update_state, src/demography.py:183-194.                     *)
(***************************************************************************)
\* line 188
SumMismatch(ndn) == ndn.lineages[1] # ndn.derived[1] + ndn.ancestral[1]

\* lines 185-189: the loop over the nodes of state, in the order the dict
\* yields them; it stops at the first node whose counts do not add up,
\* after that node's dict was updated
RECURSIVE UpdateLoop(_, _, _)
UpdateLoop(ndv, state, order) ==
    IF order = <<>> THEN [nd |-> ndv, raised |-> FALSE]
    ELSE LET node == Head(order)
             upd == [ndv EXCEPT ![node].derived = Some(state[node].derived),
                                ![node].ancestral = Some(state[node].ancestral)]
         IN  IF SumMismatch(upd[node])
             THEN [nd |-> upd, raised |-> TRUE]
             ELSE UpdateLoop(upd, state, Tail(order))

\* lines 193-194 deleting the event tree as well (a mutant of StateCaches)
StateCaches_AndEventTree == {"n_derived_subtended_by", "node_data", "eventTree"}

\* lines 193-194: the caches update_state resets
StateCaches == {"n_derived_subtended_by", "node_data"}

\* lines 183-194
update_state(g, ndv, c, state, order) ==
    LET c1 == [c EXCEPT !.node_data = Some("dict")]
        r == UpdateLoop(ndv, state, order)
    IN  IF r.raised
        THEN [nd |-> r.nd, cache |-> c1, raised |-> TRUE]
        ELSE IF c1.n_derived_subtended_by = None /\ NDerivedRaises(g, r.nd)
        THEN [nd |-> r.nd, cache |-> c1, raised |-> TRUE]
        ELSE [nd |-> r.nd, cache |-> Invalidate(c1, StateCaches), raised |-> FALSE]

\* the orders in which a dict or set of nodes can be iterated
Orders(S) ==
    {s \in [1..Cardinality(S) -> S] : \A i, j \in DOMAIN s : s[i] = s[j] => i = j}

\* The states given to update_state by a caller: for some of the leaves, a
\* derived count from 0 to one more than the leaf's lineages with the
\* ancestral count that adds up to the lineages, or one more than that.
StateInputs(g, ndv, S) ==
    {st \in [S -> [derived : 0..(MaxLineages + 1), ancestral : (-1)..(MaxLineages + 1)]] :
        \A l \in S :
            /\ st[l].derived <= ndv[l].lineages[1] + 1
            /\ st[l].ancestral - (ndv[l].lineages[1] - st[l].derived) \in {0, 1}}

\* the observation state of the leaves: 'derived' and 'ancestral', or absent
ObsOf(g, ndv) ==
    [l \in LeavesOf(g) |-> [derived |-> ndv[l].derived, ancestral |-> ndv[l].ancestral]]

(***************************************************************************)
(* The cached eventTree and the memoized admixture_prob of the instance.   *)
(***************************************************************************)
\* eventTree as a cached_property, lines 36-37: built when absent, and not
\* cached when the construction raises
GetEventTree(g, c) ==
    IF c.eventTree # None THEN [cache |-> c, raised |-> FALSE]
    ELSE LET t == EventTreeOf(LeavesOf(g), g.events) IN
         IF t = None THEN [cache |-> c, raised |-> TRUE]
         ELSE [cache |-> [c EXCEPT !.eventTree = t], raised |-> FALSE]

\* admixture_prob(node) on the instance, lines 147-178 under memoize_instance
AdmixtureProbCall(g, ndv, memo, node) ==
    IF node \in DOMAIN memo THEN [memo |-> memo, raised |-> FALSE]
    ELSE IF RootRaises(g) \/ Cardinality(ParentsOf(g, node)) # 2
              \/ ndv[node].splitprobs = None
    THEN [memo |-> memo, raised |-> TRUE]
    ELSE LET ps == ParentsOf(g, node)
             parent1 == CHOOSE p \in ps : \A q \in ps : p <= q
             parent2 == CHOOSE p \in ps : p # parent1
             sp == ndv[node].splitprobs[1]
             r == admixture_prob(NLineagesAt(g, ndv, node), sp[parent1], sp[parent2])
         IN  IF r = <<"AssertionError">>
             THEN [memo |-> memo, raised |-> TRUE]
             ELSE [memo |-> [x \in (DOMAIN memo) \cup {node} |->
                               IF x = node THEN r[2] ELSE memo[x]],
                   raised |-> FALSE]

\* SumProduct(demography) and the evaluation of its partial likelihoods.
\* The engine is not part of the sources; by sections 4.4 and 4.5 of the
\* specification it walks the event tree and applies the admixture tensor
\* at every admixture event.
RECURSIVE AdmixAll(_, _, _, _)
AdmixAll(g, ndv, memo, todo) ==
    IF todo = {} THEN [memo |-> memo, raised |-> FALSE]
    ELSE LET v == TheOne(todo)
             r == AdmixtureProbCall(g, ndv, memo, v)
         IN  IF r.raised THEN r ELSE AdmixAll(g, ndv, r.memo, todo \ {v})

SumProductRun(g, ndv, c, memo) ==
    LET t == GetEventTree(g, c) IN
    IF t.raised THEN [cache |-> c, memo |-> memo, raised |-> TRUE]
    ELSE LET a == AdmixAll(g, ndv, memo, AdmixtureNodes(g))
         IN  [cache |-> t.cache, memo |-> a.memo, raised |-> a.raised]

\* a leaf whose derived count is no index of its one-hot vector
OutOfRange(g, ndv) ==
    \E l \in LeavesOf(g) : ndv[l].derived[1] \notin 0..ndv[l].lineages[1]

(***************************************************************************)
(* The calls on a constructed Demography.  A call that ends leaves its     *)
(* outcome in result and control at "ret"; Demo_Return hands it over.      *)
(***************************************************************************)
Outcome(op, raised, exc, nodes) ==
    [op |-> op, outcome |-> IF raised THEN "raised" ELSE "returned",
     exc |-> exc, nodes |-> nodes]

\* the call that is running ends
Finish(op, raised, exc, nodes) ==
    /\ pc' = "ret"
    /\ result' = Outcome(op, raised, exc, nodes)
    /\ ncFrom' = "none"
    /\ prev_state' = None
    /\ llpCount' = 0

TopOp == IF ncFrom = "totalSfsSum" THEN "log_likelihood_prf" ELSE "normalizing_constant"

\* demography.update_state(state)
Demo_update_state ==
    /\ status = "ok" /\ pc = "idle"
    /\ \E S \in SUBSET LeavesOf(graph) :
        \E st \in StateInputs(graph, nd, S), order \in Orders(S) :
            LET r == update_state(graph, nd, cache, st, order) IN
            /\ nd' = r.nd
            /\ cache' = r.cache
            /\ Finish("update_state", r.raised, "update_state", S)
    /\ UNCHANGED <<graph, status, admMemo, entry>>
    /\ UNCHANGED <<etVars, admVars, shVars, extVars>>

\* demography.admixture_prob(node)
Demo_admixture_prob ==
    /\ status = "ok" /\ pc = "idle"
    /\ \E node \in graph.nodes :
        LET r == AdmixtureProbCall(graph, nd, admMemo, node) IN
        /\ admMemo' = r.memo
        /\ Finish("admixture_prob", r.raised, "admixture_prob", {node})
    /\ UNCHANGED <<graph, nd, status, cache, entry>>
    /\ UNCHANGED <<etVars, admVars, shVars, extVars>>

\* demography.eventTree
Demo_eventTree ==
    /\ status = "ok" /\ pc = "idle"
    /\ LET r == GetEventTree(graph, cache) IN
        /\ cache' = r.cache
        /\ Finish("eventTree", r.raised, "eventTree", {})
    /\ UNCHANGED <<graph, nd, status, admMemo, entry>>
    /\ UNCHANGED <<etVars, admVars, shVars, extVars>>

(***************************************************************************)
(* normalizing_constant, src/demography.py:233-280.                        *)
(***************************************************************************)
\* lines 236-242: the state of the leaves, or None when a leaf has none
SavedState(g, ndv) ==
    IF \A v \in LeavesOf(g) : ndv[v].ancestral # None /\ ndv[v].derived # None
    THEN Some([v \in LeavesOf(g) |->
                 [ancestral |-> ndv[v].ancestral[1], derived |-> ndv[v].derived[1]]])
    ELSE None

\* lines 247-251 building the state of lines 264-268 (a mutant of AllAncestral)
AllAncestral_AsDerived(g, ndv) ==
    [v \in LeavesOf(g) |-> [derived |-> ndv[v].lineages[1], ancestral |-> 0]]

\* lines 247-251
AllAncestral(g, ndv) ==
    [v \in LeavesOf(g) |-> [derived |-> 0, ancestral |-> ndv[v].lineages[1]]]

\* lines 264-268
AllDerived(g, ndv) ==
    [v \in LeavesOf(g) |-> [derived |-> ndv[v].lineages[1], ancestral |-> 0]]

\* normalizing_constant(demography), called by the user
Demo_normalizing_constant ==
    /\ status = "ok" /\ pc = "idle"
    /\ pc' = "nc_start"
    /\ ncFrom' = "top"
    /\ entry' = Some(ObsOf(graph, nd))
    /\ UNCHANGED <<graph, nd, status, cache, admMemo, prev_state, llpCount, result>>
    /\ UNCHANGED <<etVars, admVars, shVars, extVars>>

\* lines 236-252
NC_SetAncestral ==
    /\ pc = "nc_start"
    /\ prev_state' = SavedState(graph, nd)
    /\ \E order \in Orders(LeavesOf(graph)) :
        LET r == update_state(graph, nd, cache, AllAncestral(graph, nd), order) IN
        /\ nd' = r.nd
        /\ cache' = r.cache
        /\ IF r.raised
           THEN /\ pc' = "ret"
                /\ result' = Outcome(TopOp, TRUE, "update_state", LeavesOf(graph))
                /\ ncFrom' = "none"
           ELSE /\ pc' = "nc_sp1"
                /\ UNCHANGED <<result, ncFrom>>
    /\ UNCHANGED <<graph, status, admMemo, llpCount, entry>>
    /\ UNCHANGED <<etVars, admVars, shVars, extVars>>

\* lines 254-261: the engine on the all-ancestral state, and the loop over
\* the events of sp.G.eventTree
NC_SumProductAncestral ==
    /\ pc = "nc_sp1"
    /\ LET r == SumProductRun(graph, nd, cache, admMemo) IN
        /\ cache' = r.cache
        /\ admMemo' = r.memo
        /\ IF r.raised
           THEN Finish(TopOp, TRUE, "SumProduct", {})
           ELSE /\ pc' = "nc_derived"
                /\ UNCHANGED <<result, ncFrom, prev_state, llpCount>>
    /\ UNCHANGED <<graph, nd, status, entry>>
    /\ UNCHANGED <<etVars, admVars, shVars, extVars>>

\* lines 264-269
NC_SetDerived ==
    /\ pc = "nc_derived"
    /\ \E order \in Orders(LeavesOf(graph)) :
        LET r == update_state(graph, nd, cache, AllDerived(graph, nd), order) IN
        /\ nd' = r.nd
        /\ cache' = r.cache
        /\ IF r.raised
           THEN Finish(TopOp, TRUE, "update_state", LeavesOf(graph))
           ELSE /\ pc' = "nc_sp2"
                /\ UNCHANGED <<result, ncFrom, prev_state, llpCount>>
    /\ UNCHANGED <<graph, status, admMemo, entry>>
    /\ UNCHANGED <<etVars, admVars, shVars, extVars>>

\* lines 271-273: the engine on the all-derived state
NC_SumProductDerived ==
    /\ pc = "nc_sp2"
    /\ LET r == SumProductRun(graph, nd, cache, admMemo) IN
        /\ cache' = r.cache
        /\ admMemo' = r.memo
        /\ IF r.raised
           THEN Finish(TopOp, TRUE, "SumProduct", {})
           ELSE /\ pc' = "nc_restore"
                /\ UNCHANGED <<result, ncFrom, prev_state, llpCount>>
    /\ UNCHANGED <<graph, nd, status, entry>>
    /\ UNCHANGED <<etVars, admVars, shVars, extVars>>

\* lines 277-278
NC_Restore ==
    /\ pc = "nc_restore"
    /\ IF prev_state # None
       THEN \E order \in Orders(LeavesOf(graph)) :
              LET r == update_state(graph, nd, cache, prev_state[1], order) IN
              /\ nd' = r.nd
              /\ cache' = r.cache
              /\ IF r.raised
                 THEN Finish(TopOp, TRUE, "update_state", LeavesOf(graph))
                 ELSE /\ pc' = "nc_assert"
                      /\ UNCHANGED <<result, ncFrom, prev_state, llpCount>>
       ELSE /\ pc' = "nc_assert"
            /\ UNCHANGED <<nd, cache, result, ncFrom, prev_state, llpCount>>
    /\ UNCHANGED <<graph, status, admMemo, entry>>
    /\ UNCHANGED <<etVars, admVars, shVars, extVars>>

\* lines 279-280: ret is a number the engine computed; the call returns it
\* when it is positive, to the user or into the cached totalSfsSum
\* (lines 91-93)
NC_Assert ==
    /\ pc = "nc_assert"
    /\ \E positive \in BOOLEAN :
        IF ~ positive
        THEN /\ Finish(TopOp, TRUE, "assert ret > 0.0", {})
             /\ UNCHANGED <<cache, entry>>
        ELSE IF ncFrom = "top"
        THEN /\ Finish("normalizing_constant", FALSE, "", {})
             /\ UNCHANGED <<cache, entry>>
        ELSE /\ cache' = [cache EXCEPT !.totalSfsSum = Some("ret")]
             /\ pc' = "llp_loop"
             /\ prev_state' = None
             /\ entry' = None
             /\ UNCHANGED <<result, ncFrom, llpCount>>
    /\ UNCHANGED <<graph, nd, status, admMemo>>
    /\ UNCHANGED <<etVars, admVars, shVars, extVars>>

(***************************************************************************)
(* log_likelihood_prf, src/demography.py:197-208.                          *)
(***************************************************************************)
\* the leaves of a configuration before leaf l, in the order of line 203
LexLess(g, c1, c2) ==
    \E l \in LeavesOf(g) :
        /\ c1[l] < c2[l]
        /\ \A k \in LeavesOf(g) : k < l => c1[k] = c2[k]

\* The configurations of sfs: a derived count for every leaf, from 0 to one
\* more than the leaf's lineages.
Configs(g, ndv) ==
    {cf \in [LeavesOf(g) -> 0..(MaxLineages + 1)] :
        \A l \in LeavesOf(g) : cf[l] <= ndv[l].lineages[1] + 1}

\* lines 202-203: the state of a configuration
ConfigState(g, ndv, cf) ==
    [a \in LeavesOf(g) |->
        [derived |-> cf[a], ancestral |-> NLineagesAt(g, ndv, a) - cf[a]]]

\* log_likelihood_prf(demography, theta, sfs), line 198: totalSfsSum is
\* normalizing_constant(self), computed on the first access
Demo_log_likelihood_prf ==
    /\ status = "ok" /\ pc = "idle"
    /\ IF cache.totalSfsSum # None
       THEN /\ pc' = "llp_loop"
            /\ ncFrom' = "totalSfsSum"
            /\ UNCHANGED entry
       ELSE /\ pc' = "nc_start"
            /\ ncFrom' = "totalSfsSum"
            /\ entry' = Some(ObsOf(graph, nd))
    /\ llpCount' = 0
    /\ UNCHANGED <<graph, nd, status, cache, admMemo, prev_state, result>>
    /\ UNCHANGED <<etVars, admVars, shVars, extVars>>

\* lines 200-203: the next configuration of sfs; the configurations are
\* distinct, and taken here in increasing order
LLP_UpdateState ==
    /\ pc = "llp_loop"
    /\ llpCount < MaxConfigs
    /\ IF RootRaises(graph)
       THEN /\ Finish("log_likelihood_prf", TRUE, "n_lineages_at_node", {})
            /\ UNCHANGED <<nd, cache>>
       ELSE \E cf \in Configs(graph, nd), order \in Orders(LeavesOf(graph)) :
              /\ llpCount > 0 =>
                    LexLess(graph, [l \in LeavesOf(graph) |-> nd[l].derived[1]], cf)
              /\ LET r == update_state(graph, nd, cache,
                                       ConfigState(graph, nd, cf), order) IN
                  /\ nd' = r.nd
                  /\ cache' = r.cache
                  /\ IF r.raised
                     THEN Finish("log_likelihood_prf", TRUE, "update_state",
                                 LeavesOf(graph))
                     ELSE /\ pc' = "llp_sp"
                          /\ UNCHANGED <<result, ncFrom, prev_state, llpCount>>
    /\ UNCHANGED <<graph, status, admMemo, entry>>
    /\ UNCHANGED <<etVars, admVars, shVars, extVars>>

\* lines 204-205: the engine on the configuration's state; a derived count
\* that is no index of the leaf's vector may fail in the engine
LLP_SumProduct ==
    /\ pc = "llp_sp"
    /\ LET r == SumProductRun(graph, nd, cache, admMemo) IN
        /\ cache' = r.cache
        /\ admMemo' = r.memo
        /\ \E fails \in BOOLEAN :
            /\ fails => OutOfRange(graph, nd)
            /\ IF r.raised \/ fails
               THEN Finish("log_likelihood_prf", TRUE, "SumProduct", {})
               ELSE /\ pc' = "llp_loop"
                    /\ llpCount' = llpCount + 1
                    /\ UNCHANGED <<result, ncFrom, prev_state>>
    /\ UNCHANGED <<graph, nd, status, entry>>
    /\ UNCHANGED <<etVars, admVars, shVars, extVars>>

\* lines 206-208: the loop is over; ret is a number, returned when negative
LLP_Finish ==
    /\ pc = "llp_loop"
    /\ \E negative \in BOOLEAN :
        Finish("log_likelihood_prf", ~ negative,
               IF negative THEN "" ELSE "assert ret < 0.0", {})
    /\ UNCHANGED <<graph, nd, status, cache, admMemo, entry>>
    /\ UNCHANGED <<etVars, admVars, shVars, extVars>>

(***************************************************************************)
(* Spec: a Demography over each of the graphs, constructed and then used.  *)
(***************************************************************************)
Init ==
    /\ IdleET /\ IdleAdmix /\ IdleSH /\ IdleExt
    /\ \E g \in DemoGraphs :
        \E lin \in LineageChoices(g), sp \in SplitProbChoices(g) :
            InitDemoWith(g, NodeData(g, lin, [v \in g.nodes |-> TRUE],
                                     [v \in g.nodes |-> FALSE], sp))

Next ==
    \/ Demo_Construct
    \/ Demo_Return
    \/ Demo_update_state
    \/ Demo_admixture_prob
    \/ Demo_eventTree
    \/ Demo_normalizing_constant
    \/ NC_SetAncestral
    \/ NC_SumProductAncestral
    \/ NC_SetDerived
    \/ NC_SumProductDerived
    \/ NC_Restore
    \/ NC_Assert
    \/ Demo_log_likelihood_prf
    \/ LLP_UpdateState
    \/ LLP_SumProduct
    \/ LLP_Finish

Spec == Init /\ [][Next]_vars

\* SpecCalls: construction and the methods of the instance alone, without
\* the likelihood functions that run the engine.
NextCalls ==
    \/ Demo_Construct
    \/ Demo_Return
    \/ Demo_update_state
    \/ Demo_admixture_prob
    \/ Demo_eventTree

SpecCalls == Init /\ [][NextCalls]_vars

(***************************************************************************)
(* Claims about the calls on a constructed Demography (Spec).              *)
(***************************************************************************)
HasState(v) == nd[v].derived # None /\ nd[v].ancestral # None

Returned(op) == pc = "ret" /\ result.op = op /\ result.outcome = "returned"

Raised(op) == pc = "ret" /\ result.op = op /\ result.outcome = "raised"

\* C2.  In every reachable state of a Demography, also after a call that
\* ended by raising, every node that carries observation state satisfies
\* derived + ancestral = lineages.
C2_SumInvariant ==
    status = "ok" =>
        \A v \in LeavesOf(graph) :
            HasState(v) => nd[v].derived[1] + nd[v].ancestral[1] = nd[v].lineages[1]

\* C3.  When normalizing_constant reaches its positivity assertion, and
\* when it has returned or failed that assertion, every leaf's derived and
\* ancestral values (or their absence) are those of the entry to the call.
C3_StateRestored ==
    (\/ pc = "nc_assert"
     \/ Returned("normalizing_constant")
     \/ (Raised("normalizing_constant") /\ result.exc = "assert ret > 0.0"))
        => ObsOf(graph, nd) = entry[1]

\* an admixture child whose two split probabilities do not sum to 1
BadSplit(v) ==
    /\ v \in AdmixtureNodes(graph)
    /\ LET ps == ParentsOf(graph, v)
           sp == nd[v].splitprobs[1]
       IN  \E p, q \in ps : p # q /\ RAdd(sp[p], sp[q]) # ROne

\* C5 as stated.  On a graph with an admixture child whose split
\* probabilities do not sum to 1, no construction and no update_state
\* succeeds and no likelihood evaluation starts.
C5_RejectedAtConstruction ==
    (\E v \in graph.nodes : BadSplit(v)) =>
        /\ status # "ok"
        /\ ~ Returned("update_state")
        /\ pc \in {"idle", "ret"}

\* C5, amended.  An admixture child whose split probabilities do not sum to
\* 1 is rejected when admixture_prob is evaluated for it: the call raises,
\* and no tensor of that node is ever memoized.
C5_RejectedAtAdmixtureProb ==
    \A v \in graph.nodes :
        BadSplit(v) =>
            /\ v \notin DOMAIN admMemo
            /\ (pc = "ret" /\ result.op = "admixture_prob" /\ result.nodes = {v})
                   => result.outcome = "raised"

C5_Witness ==
    \E v \in graph.nodes :
        /\ BadSplit(v)
        /\ status = "ok"
        /\ Raised("admixture_prob")
        /\ result.nodes = {v}
        /\ \A l \in LeavesOf(graph) : HasState(l)

\* C9.  Once built, the event tree of a Demography never changes and is
\* never discarded, whatever call runs; the graph it was built from and
\* the cached totalSfsSum are kept as well, so update_state resets only the
\* caches that depend on node state.
C9_EventTreeImmutable ==
    [][/\ graph' = graph
       /\ cache.eventTree # None => cache'.eventTree = cache.eventTree
       /\ cache.totalSfsSum # None => cache'.totalSfsSum = cache.totalSfsSum]_vars

C9_Witness ==
    /\ Returned("update_state")
    /\ result.nodes # {}
    /\ cache.eventTree # None
    /\ cache.eventTree = EventTreeOf(LeavesOf(graph), graph.events)
    /\ cache.n_derived_subtended_by = None

\* C10.  After a successful update_state, called directly or by
\* log_likelihood_prf for a configuration, the derived and ancestral values
\* it set are non-negative and derived does not exceed the lineages.
C10_NonNegative ==
    /\ Returned("update_state") =>
          \A v \in result.nodes :
              /\ nd[v].derived[1] >= 0
              /\ nd[v].ancestral[1] >= 0
              /\ nd[v].derived[1] <= nd[v].lineages[1]
    /\ pc = "llp_sp" =>
          \A v \in LeavesOf(graph) :
              /\ nd[v].derived[1] >= 0
              /\ nd[v].ancestral[1] >= 0
              /\ nd[v].derived[1] <= nd[v].lineages[1]

(***************************************************************************)
(* SpecConc: workers that each evaluate log_likelihood_prf                 *)
(* (src/demography.py:197-208) on the Demography instance they were given, *)
(* one statement of update_state (lines 183-194) per step.  The workers    *)
(* either have an instance each or all share instance 1.  The instances    *)
(* are constructed over the two-leaf graph and have totalSfsSum cached.    *)
(***************************************************************************)
\* the two evaluations
Workers == {1, 2}

ConcGraph == GraphOf({1, 2}, <<Merge(3, 1, 2)>>)

ConcLeaves == LeavesOf(ConcGraph)

\* the configurations of sfs within the range of the leaves
ConcConfigs == [ConcLeaves -> 0..MaxLineages]

\* line 187 writing 'derived' alone (a mutant of NdnUpdate)
NdnUpdate_DerivedOnly(ndn, st) == [ndn EXCEPT !.derived = Some(st.derived)]

\* line 187: ndn.update(state[node])
NdnUpdate(ndn, st) ==
    [ndn EXCEPT !.derived = Some(st.derived), !.ancestral = Some(st.ancestral)]

\* line 202: the state of a configuration on an instance
ConcState(i, cf) ==
    [a \in ConcLeaves |->
        [derived |-> cf[a], ancestral |-> cNd[i][a].lineages[1] - cf[a]]]

InitConc ==
    /\ IdleET /\ IdleAdmix /\ IdleSH /\ IdleDemo /\ IdleRest
    /\ instOf \in {[w \in Workers |-> w], [w \in Workers |-> 1]}
    /\ cNd = [i \in Workers |-> [l \in ConcLeaves |->
                [lineages |-> Some(MaxLineages), derived |-> None, ancestral |-> None]]]
    /\ cCache = [i \in Workers |-> {}]
    /\ cWriter = [i \in Workers |-> [l \in ConcLeaves |-> 0]]
    /\ wpc = [w \in Workers |-> "idle"]
    /\ wCfg = [w \in Workers |-> None]
    /\ wTodo = [w \in Workers |-> <<>>]
    /\ wSaw = [w \in Workers |-> None]

\* lines 201-203 and 184: the worker takes a configuration of sfs, builds
\* its state and enters update_state, which reads self.node_data
W_NextConfig(w) ==
    /\ wpc[w] = "idle"
    /\ \E cf \in ConcConfigs, order \in Orders(ConcLeaves) :
        /\ wCfg' = [wCfg EXCEPT ![w] = Some(cf)]
        /\ wTodo' = [wTodo EXCEPT ![w] = order]
    /\ wSaw' = [wSaw EXCEPT ![w] = None]
    /\ cCache' = [cCache EXCEPT ![instOf[w]] = @ \cup {"node_data"}]
    /\ wpc' = [wpc EXCEPT ![w] = "upd"]
    /\ UNCHANGED <<instOf, cNd, cWriter>>
    /\ UNCHANGED <<etVars, admVars, shVars, demoVars, restVars>>

\* lines 185-189: one round of the loop over state
W_UpdateNode(w) ==
    /\ wpc[w] = "upd"
    /\ wTodo[w] # <<>>
    /\ LET i == instOf[w]
           node == Head(wTodo[w])
           ndn == NdnUpdate(cNd[i][node], ConcState(i, wCfg[w][1])[node])
       IN  /\ cNd' = [cNd EXCEPT ![i][node] = ndn]
           /\ cWriter' = [cWriter EXCEPT ![i][node] = w]
           /\ wpc' = [wpc EXCEPT ![w] =
                        IF ndn.ancestral = None \/ SumMismatch(ndn)
                        THEN "raised" ELSE "upd"]
    /\ wTodo' = [wTodo EXCEPT ![w] = Tail(@)]
    /\ UNCHANGED <<instOf, cCache, wCfg, wSaw>>
    /\ UNCHANGED <<etVars, admVars, shVars, demoVars, restVars>>

\* line 192: self.n_derived_subtended_by, computed when it is not cached
W_EnsureCache(w) ==
    /\ wpc[w] = "upd"
    /\ wTodo[w] = <<>>
    /\ LET i == instOf[w] IN
        IF "n_derived_subtended_by" \notin cCache[i]
           /\ \E l \in ConcLeaves : cNd[i][l].derived = None
        THEN /\ wpc' = [wpc EXCEPT ![w] = "raised"]
             /\ UNCHANGED cCache
        ELSE /\ wpc' = [wpc EXCEPT ![w] = "del1"]
             /\ cCache' = [cCache EXCEPT ![i] = @ \cup {"n_derived_subtended_by"}]
    /\ UNCHANGED <<instOf, cNd, cWriter, wCfg, wTodo, wSaw>>
    /\ UNCHANGED <<etVars, admVars, shVars, demoVars, restVars>>

\* del self.<name> of a cached_property: AttributeError when the value is
\* not in the instance
DelCache(w, name, next) ==
    LET i == instOf[w] IN
    IF name \in cCache[i]
    THEN /\ cCache' = [cCache EXCEPT ![i] = @ \ {name}]
         /\ wpc' = [wpc EXCEPT ![w] = next]
    ELSE /\ wpc' = [wpc EXCEPT ![w] = "raised"]
         /\ UNCHANGED cCache

\* line 193
W_DelNDerived(w) ==
    /\ wpc[w] = "del1"
    /\ DelCache(w, "n_derived_subtended_by", "del2")
    /\ UNCHANGED <<instOf, cNd, cWriter, wCfg, wTodo, wSaw>>
    /\ UNCHANGED <<etVars, admVars, shVars, demoVars, restVars>>

\* line 194
W_DelNodeData(w) ==
    /\ wpc[w] = "del2"
    /\ DelCache(w, "node_data", "sp")
    /\ UNCHANGED <<instOf, cNd, cWriter, wCfg, wTodo, wSaw>>
    /\ UNCHANGED <<etVars, admVars, shVars, demoVars, restVars>>

\* lines 204-205: SumProduct(self) runs on the state the leaves hold
W_SumProduct(w) ==
    /\ wpc[w] = "sp"
    /\ LET i == instOf[w] IN
        wSaw' = [wSaw EXCEPT ![w] =
                   Some([state |-> [l \in ConcLeaves |->
                                      [derived |-> cNd[i][l].derived,
                                       ancestral |-> cNd[i][l].ancestral]],
                         writers |-> cWriter[i]])]
    /\ wpc' = [wpc EXCEPT ![w] = "idle"]
    /\ UNCHANGED <<instOf, cNd, cCache, cWriter, wCfg, wTodo>>
    /\ UNCHANGED <<etVars, admVars, shVars, demoVars, restVars>>

NextConc ==
    \E w \in Workers :
        \/ W_NextConfig(w)
        \/ W_UpdateNode(w)
        \/ W_EnsureCache(w)
        \/ W_DelNDerived(w)
        \/ W_DelNodeData(w)
        \/ W_SumProduct(w)

SpecConc == InitConc /\ [][NextConc]_vars

\* the workers were given an instance each
OwnInstances == \A w1, w2 \in Workers : instOf[w1] = instOf[w2] => w1 = w2

\* the SumProduct of worker w ran on the state w had set for its configuration
RanOnOwnState(w) ==
    \A l \in ConcLeaves :
        /\ wSaw[w][1].writers[l] = w
        /\ wSaw[w][1].state[l].derived = Some(wCfg[w][1][l])
        /\ wSaw[w][1].state[l].ancestral =
              Some(cNd[instOf[w]][l].lineages[1] - wCfg[w][1][l])

f_NoExcept(outcome) ==
    IF outcome = "returned" THEN "-log_likelihood" ELSE "raised"

\* lines 68-73: the negated log-likelihood, or 1e100 on an Exception
f(outcome) ==
    IF outcome = "returned" THEN "-log_likelihood" ELSE "1e100"

InitObj ==
    /\ IdleET /\ IdleAdmix /\ IdleSH /\ IdleConc /\ IdleTail
    /\ \E g \in DemoGraphs :
        \E lin \in LineageChoices(g), sp \in SplitProbChoices(g) :
            InitDemoWith(g, NodeData(g, lin, [v \in g.nodes |-> TRUE],
                                     [v \in g.nodes |-> FALSE], sp))
    /\ fpc = "idle"
    /\ fEval = None
    /\ fRet = None

\* line 69: f(params) enters the try block
F_Call ==
    /\ fpc = "idle"
    /\ fpc' = "try"
    /\ UNCHANGED <<fEval, fRet>>
    /\ UNCHANGED <<etVars, admVars, shVars, demoVars, concVars, tailVars>>

\* line 70: surface.log_likelihood(params) builds the Demography of params
Obj_Construct == fpc = "try" /\ Demo_Construct

\* the Demography was built
Obj_Constructed == fpc = "try" /\ Returned("__init__") /\ Demo_Return

\* line 70: ... and evaluates log_likelihood_prf on it
Obj_Evaluate == fpc = "try" /\ Demo_log_likelihood_prf

\* lines 70-73: the evaluation returned or raised, and f returns
F_Return ==
    /\ fpc = "try"
    /\ pc = "ret"
    /\ result.op = "log_likelihood_prf" \/ result.outcome = "raised"
    /\ fEval' = Some(result)
    /\ fRet' = Some(f(result.outcome))
    /\ fpc' = "done"
    /\ pc' = "idle"
    /\ result' = None
    /\ entry' = None
    /\ UNCHANGED <<graph, nd, status, cache, admMemo, ncFrom, prev_state, llpCount>>
    /\ UNCHANGED <<etVars, admVars, shVars, concVars, tailVars>>

NextObj ==
    \/ F_Call
    \/ Obj_Construct
    \/ Obj_Constructed
    \/ Obj_Evaluate
    \/ NC_SetAncestral
    \/ NC_SumProductAncestral
    \/ NC_SetDerived
    \/ NC_SumProductDerived
    \/ NC_Restore
    \/ NC_Assert
    \/ LLP_UpdateState
    \/ LLP_SumProduct
    \/ LLP_Finish
    \/ F_Return

SpecObj == InitObj /\ [][NextObj]_vars

\* the fatal assertions of the evaluation, lines 279 and 207 of demography.py
FatalAssertions == {"assert ret > 0.0", "assert ret < 0.0"}

\* C12.  What ends an evaluation by raising, a failed fatal assertion
\* included, reaches f as an exception; f returns the negated
\* log-likelihood when the evaluation returned, 1e100 when it raised, and
\* never raises.
C12_PenaltyOnException ==
    /\ (pc = "ret" /\ result.exc \in FatalAssertions) => result.outcome = "raised"
    /\ fpc = "done" =>
          /\ fEval[1].outcome = "returned" => fRet = Some("-log_likelihood")
          /\ fEval[1].outcome = "raised" => fRet = Some("1e100")
          /\ fRet # Some("raised")

C12_Witness ==
    /\ fpc = "done"
    /\ fEval[1].exc = "assert ret > 0.0"
    /\ fEval[1].outcome = "raised"
    /\ fRet = Some("1e100")

(***************************************************************************)
(* SpecETAny: the construction of the event tree on event lists that hold  *)
(* an arbitrary raw event: any sequence of up to two edges over the        *)
(* populations 1..MaxRawPops, or a merge with a third edge, alone or next  *)
(* to the merge of the leaves 1 and 2 into 3.                              *)
(***************************************************************************)
RawEdges == (1..MaxRawPops) \X (1..MaxRawPops)

RawEvents ==
    {<<>>} \cup {<<a>> : a \in RawEdges} \cup {<<a, b>> : a, b \in RawEdges}
        \cup {Merge(3, 1, 2) \o <<a>> : a \in RawEdges}

AnyEventLists ==
    {<<>>} \cup UNION {{<<r>>, <<Merge(3, 1, 2), r>>, <<r, Merge(3, 1, 2)>>} :
                         r \in RawEvents}

InitETAny ==
    /\ \E leaves \in {{}, {1}, {1, 2}}, ev \in AnyEventLists :
        /\ etLeaves = leaves
        /\ etEvents = ev
        /\ currEvents = InitCurrEvents(leaves)
        /\ eventDict = InitEventDict(leaves)
    /\ eventEdgeList = {}
    /\ etIdx = 0
    /\ etStatus = "loop"
    /\ etRet = None
    /\ IdleAdmix
    /\ IdleSH
    /\ IdleDemo
    /\ IdleExt

SpecETAny == InitETAny /\ [][NextET]_vars

\* a pair of edges with 3 parent and child populations in total whose
\* consumed populations are owned by 1 or 2 current events
IsPairEvent(cur, e) ==
    /\ Len(e) = 2
    /\ Cardinality(ParentPopsOf(e)) + Cardinality(ChildPopsOf(e)) = 3
    /\ ChildPopsOf(e) \subseteq DOMAIN cur
    /\ Cardinality({cur[c] : c \in (ChildPopsOf(e) \cap DOMAIN cur)}) \in {1, 2}

\* C13.  The construction raises, and returns no event tree, at a raw
\* event that is not a pair of edges with 3 parent and child populations in
\* total whose consumed populations are owned by 1 or 2 current events, and
\* at the end when the live populations are not exactly 1.
C13_FailsOnBadEvent ==
    /\ [][/\ (etStatus = "loop" /\ etIdx < Len(etEvents)
                 /\ ~ IsPairEvent(currEvents, etEvents[etIdx + 1]))
             => (etStatus' = "raised" /\ etRet' = None)
          /\ (etStatus = "loop" /\ etIdx = Len(etEvents)
                 /\ Cardinality(DOMAIN currEvents) # 1)
             => (etStatus' = "raised" /\ etRet' = None)
          /\ etStatus = "raised" => (etStatus' = "raised" /\ etRet' = None)]_vars
    /\ [](etRet # None => etStatus = "done")

C13_Witness ==
    /\ etStatus = "raised"
    /\ etIdx = 2
    /\ Len(etEvents[2]) = 2
    /\ Cardinality(ParentPopsOf(etEvents[2])) + Cardinality(ChildPopsOf(etEvents[2])) = 3
    /\ ~ IsPairEvent(currEvents, etEvents[2])

(***************************************************************************)
(* Demography.event_type, src/demography.py:71-79, on the tree returned by *)
(* the construction.                                                       *)
(***************************************************************************)
\* self.eventTree[event]: the child events of event in the DiGraph
Successors(tree, event) == {ed[2] : ed \in {x \in tree.edges : x[1] = event}}

\* lines 71-79 counting the consumed populations at line 76 (a mutant of
\* event_type)
event_type_ByChildPops(tree, event) ==
    IF Len(event) = 1 THEN "leaf"
    ELSE IF Cardinality(tree.node[event].parent_pops) = 2 THEN "admixture"
    ELSE IF Cardinality(DOMAIN tree.node[event].child_pops) = 2 THEN "merge_clusters"
    ELSE "merge_subpops"

\* lines 71-79
event_type(tree, event) ==
    IF Len(event) = 1 THEN "leaf"
    ELSE IF Cardinality(tree.node[event].parent_pops) = 2 THEN "admixture"
    ELSE IF Cardinality(Successors(tree, event)) = 2 THEN "merge_clusters"
    ELSE "merge_subpops"

\* the events owning the populations an event consumes
OwnersOfConsumed(tree, event) ==
    {tree.node[event].child_pops[c] : c \in DOMAIN tree.node[event].child_pops}

\* C14.  For every event of a built event tree, event_type is leaf iff the
\* event has no child events, admixture iff it has 2 parent_pops and
\* consumes 1 population, merge_clusters iff it has 1 parent_pop and
\* consumes 2 populations owned by two distinct child events, and
\* merge_subpops iff it has 1 parent_pop and consumes 2 populations owned by
\* one child event.
C14_EventTypeAgrees ==
    etStatus = "done" =>
        \A ev \in DOMAIN etRet[1].node :
            LET tree == etRet[1]
                t == event_type(tree, ev)
                pp == Cardinality(tree.node[ev].parent_pops)
                cp == Cardinality(DOMAIN tree.node[ev].child_pops)
                owners == Cardinality(OwnersOfConsumed(tree, ev))
            IN  /\ t \in {"leaf", "admixture", "merge_clusters", "merge_subpops"}
                /\ t = "leaf" <=> Successors(tree, ev) = {}
                /\ t = "admixture" <=> (pp = 2 /\ cp = 1)
                /\ t = "merge_clusters" <=> (pp = 1 /\ cp = 2 /\ owners = 2)
                /\ t = "merge_subpops" <=> (pp = 1 /\ cp = 2 /\ owners = 1)

C14_Witness ==
    /\ etStatus = "done"
    /\ \A t \in {"leaf", "admixture", "merge_clusters", "merge_subpops"} :
          \E ev \in DOMAIN etRet[1].node : event_type(etRet[1], ev) = t

(***************************************************************************)
(* The bookkeeping of the construction (SpecET).                           *)
(***************************************************************************)
\* the populations produced and not yet consumed after k raw events
RECURSIVE LiveAfter(_, _, _)
LiveAfter(leaves, events, k) ==
    IF k = 0 THEN leaves
    ELSE (LiveAfter(leaves, events, k - 1) \ ChildPopsOf(events[k]))
             \cup ParentPopsOf(events[k])

\* the events that have event as a child in the returned DiGraph
ParentEvents(tree, event) == {ed[1] : ed \in {x \in tree.edges : x[2] = event}}

\* C18.  After each processed raw event the keys of currEvents are exactly
\* the live populations, each live population is owned by an event whose
\* subpops contains it, and all populations in the subpops of an owning
\* event are owned by that event; in the returned tree every event other
\* than the root is the child of exactly one event, the root is the child
\* of none, and every leaf event is in the tree.
C18_LiveOwnership ==
    etStatus \in {"loop", "done"} =>
        /\ DOMAIN currEvents = LiveAfter(etLeaves, etEvents, etIdx)
        /\ \A p \in DOMAIN currEvents :
              /\ p \in eventDict[currEvents[p]].subpops
              /\ \A q \in eventDict[currEvents[p]].subpops :
                    q \in DOMAIN currEvents /\ currEvents[q] = currEvents[p]
        /\ etStatus = "done" =>
              LET tree == etRet[1] IN
              /\ \A ev \in DOMAIN tree.node :
                    Cardinality(ParentEvents(tree, ev)) =
                        IF ev = tree.root THEN 0 ELSE 1
              /\ \A l \in etLeaves : LeafEvent(l) \in DOMAIN tree.node

\* an admixture's two parents were split between the event that consumed
\* one of them and took the other over
C18_Witness ==
    /\ etStatus = "done"
    /\ \E ev \in DOMAIN eventDict :
          /\ Cardinality(eventDict[ev].parent_pops) = 2
          /\ etRet[1].root # ev
          /\ \E m \in DOMAIN eventDict :
                /\ m # ev
                /\ Cardinality(OwnersOfConsumed(etRet[1], m)) = 2
                /\ ev \in OwnersOfConsumed(etRet[1], m)
                /\ eventDict[m].subpops \cap eventDict[ev].parent_pops # {}

(***************************************************************************)
(* The order of the steps of normalizing_constant (Spec).                  *)
(***************************************************************************)
\* every leaf holds derived = d(lineages), ancestral = lineages - d(lineages)
AllLeavesHold(ndv, allDerived) ==
    \A v \in LeavesOf(graph) :
        /\ ndv[v].derived = Some(IF allDerived THEN ndv[v].lineages[1] ELSE 0)
        /\ ndv[v].ancestral = Some(IF allDerived THEN 0 ELSE ndv[v].lineages[1])

\* what of the graph is not observation state
Structure(g, ndv) ==
    <<g, [v \in g.nodes |-> <<ndv[v].lineages, ndv[v].model, ndv[v].model_func,
                               ndv[v].splitprobs>>],
      [v \in g.nodes \ LeavesOf(g) |-> ndv[v]]>>

\* C15.  Within one normalizing_constant call the engine is created twice:
\* first on the state derived = 0, ancestral = lineages of every leaf, then
\* on the state derived = lineages, ancestral = 0; the steps follow one
\* another in the order of the code, so neither creation is repeated; the
\* entry state is written back only by the step after the second
\* evaluation; and no step changes the graph, a non-leaf node, or an
\* attribute of a leaf other than derived and ancestral.
C15_TwoEvaluationsInOrder ==
    [][/\ pc = "nc_start" =>
             /\ pc' \in {"nc_sp1", "ret"}
             /\ pc' = "nc_sp1" => AllLeavesHold(nd', FALSE)
       /\ pc = "nc_sp1" =>
             /\ AllLeavesHold(nd, FALSE)
             /\ nd' = nd
             /\ pc' \in {"nc_derived", "ret"}
       /\ pc = "nc_derived" =>
             /\ pc' \in {"nc_sp2", "ret"}
             /\ pc' = "nc_sp2" => AllLeavesHold(nd', TRUE)
       /\ pc = "nc_sp2" =>
             /\ AllLeavesHold(nd, TRUE)
             /\ nd' = nd
             /\ pc' \in {"nc_restore", "ret"}
       /\ pc = "nc_restore" =>
             /\ pc' \in {"nc_assert", "ret"}
             /\ (pc' = "nc_assert" /\ prev_state # None) => ObsOf(graph, nd') = entry[1]
       /\ pc = "nc_assert" => (nd' = nd /\ pc' \in {"ret", "llp_loop"})
       /\ pc \in {"nc_start", "nc_sp1", "nc_derived", "nc_sp2", "nc_restore",
                  "nc_assert"} =>
             Structure(graph', nd') = Structure(graph, nd)]_vars

\* a call that has restored an entry state that is neither of the two
\* synthetic states
C15_Witness ==
    /\ pc = "nc_assert"
    /\ prev_state # None
    /\ ObsOf(graph, nd) = entry[1]
    /\ ~ AllLeavesHold(nd, TRUE)
    /\ ~ AllLeavesHold(nd, FALSE)
    /\ cache.eventTree # None

(***************************************************************************)
(* SpecPW: etjj and scaled_time of a PiecewiseHistory,                     *)
(* src/size_history.py:238-266.  The value of etjj is kept as its terms:   *)
(* for each piece, the pieces whose no-coalescence probability multiplies  *)
(* the piece's etjj.                                                       *)
(***************************************************************************)
\* pop.etjj of a piece raises: in ExponentialTruncatedSizeHistory.etjj,
\* lines 180-195, pow1 = growth_rate * tau is NaN when tau is 0 or
\* infinite, and the assertion ret >= 0 of line 192 fails on NaN entries;
\* with n_max = 1 the arrays are empty and every assertion passes
PieceEtjjRaises(p) ==
    /\ p.variant = "Exponential"
    /\ p.n_max >= 2
    /\ FMul(p.growth_rate, p.tau) = "nan"

\* line 255: pop.scaled_time != float('inf') is false
HasInfiniteScaledTime(p) == SimpleScaledTime(p) = "inf"

\* lines 253-259: the loop over the pieces from piece i on
RECURSIVE EtjjLoop(_, _, _, _)
EtjjLoop(pieces, i, terms, noCoal) ==
    IF i > Len(pieces) THEN <<"ret", terms>>
    ELSE IF PieceEtjjRaises(pieces[i]) THEN <<"AssertionError">>
    ELSE LET ret == Append(terms, [piece |-> i, noCoalProb |-> noCoal]) IN
         IF ~ HasInfiniteScaledTime(pieces[i])
         THEN EtjjLoop(pieces, i + 1, ret, noCoal \cup {i})
         ELSE IF i # Len(pieces) THEN <<"AssertionError">>
         ELSE EtjjLoop(pieces, i + 1, ret, noCoal)

\* PiecewiseHistory.etjj, lines 246-260
etjj(h) == EtjjLoop(h.pieces, 1, <<>>, {})

InitPW ==
    /\ \E n \in 1..MaxShN : hist \in {PiecewiseHistory(ps) : ps \in PieceSeqs(n)}
    /\ shArgs = None
    /\ shScaledTime = None
    /\ shResult = None
    /\ shEtjj = <<"pending">>
    /\ IdleET /\ IdleAdmix /\ IdleDemo /\ IdleConc /\ IdleObj /\ IdleCC

\* reading the cached_property etjj
PW_Etjj ==
    /\ shEtjj = <<"pending">>
    /\ shEtjj' = etjj(hist)
    /\ UNCHANGED <<hist, shArgs, shScaledTime, shResult>>
    /\ UNCHANGED <<etVars, admVars, demoVars, concVars, objVars, ccVars>>

\* reading the cached_property scaled_time
PW_ScaledTime ==
    /\ shScaledTime = None
    /\ shScaledTime' = Some(scaled_time(hist))
    /\ UNCHANGED <<hist, shArgs, shResult, shEtjj>>
    /\ UNCHANGED <<etVars, admVars, demoVars, concVars, objVars, ccVars>>

NextPW == PW_Etjj \/ PW_ScaledTime

SpecPW == InitPW /\ [][NextPW]_vars

\* a piece of infinite duration stands before the last piece
InfiniteBeforeLast(h) ==
    \E i \in 1..(Len(h.pieces) - 1) : h.pieces[i].tau = "inf"

\* C16.  etjj of a PiecewiseHistory fails whenever a piece of infinite
\* duration stands before the last piece; otherwise, unless a piece's own
\* etjj fails, it is the sum over the pieces of the piece's etjj times the
\* no-coalescence probabilities of all earlier pieces; scaled_time is
\* infinite if the total tau is infinite and the sum of the pieces'
\* scaled_time otherwise.
C16_InfiniteMustBeLast ==
    /\ (shEtjj # <<"pending">> /\ InfiniteBeforeLast(hist))
          => shEtjj = <<"AssertionError">>
    /\ (shEtjj # <<"pending">> /\ ~ InfiniteBeforeLast(hist)
          /\ \A i \in DOMAIN hist.pieces : ~ PieceEtjjRaises(hist.pieces[i]))
          => shEtjj = <<"ret", [i \in DOMAIN hist.pieces |->
                                  [piece |-> i, noCoalProb |-> 1..(i - 1)]]>>
    /\ shScaledTime # None =>
          shScaledTime[1] =
              IF hist.tau = "inf" THEN "inf"
              ELSE FSum([i \in DOMAIN hist.pieces |-> SimpleScaledTime(hist.pieces[i])])

(***************************************************************************)
(* src/momi/data/compressed_counts.py.  A config is a tuple with one       *)
(* (ancestral, derived) pair per population; a str is the sequence of its  *)
(* characters; Python's 0-based positions are 1-based here.                *)
(***************************************************************************)
Digits == <<"0", "1", "2", "3", "4", "5", "6", "7", "8", "9">>

\* "%d" % n
RECURSIVE FormatNat(_)
FormatNat(n) ==
    IF n < 10 THEN <<Digits[n + 1]>>
    ELSE FormatNat(n \div 10) \o <<Digits[(n % 10) + 1]>>

FormatInt(n) == IF n < 0 THEN <<"-">> \o FormatNat(-n) ELSE FormatNat(n)

\* sep.join(parts)
RECURSIVE Join(_, _)
Join(sep, parts) ==
    IF parts = <<>> THEN <<>>
    ELSE IF Len(parts) = 1 THEN parts[1]
    ELSE parts[1] \o <<sep>> \o Join(sep, Tail(parts))

\* lines 7-8
_config2hashable(config) ==
    Join("\t", [i \in DOMAIN config |->
                  FormatInt(config[i][1]) \o <<",">> \o FormatInt(config[i][2])])

\* str.split(sep) for a one-character sep: the pieces between the
\* separators, empty pieces included; cur is the piece being read
RECURSIVE SplitAt(_, _, _)
SplitAt(str, sep, cur) ==
    IF str = <<>> THEN <<cur>>
    ELSE IF Head(str) = sep THEN <<cur>> \o SplitAt(Tail(str), sep, <<>>)
    ELSE SplitAt(Tail(str), sep, Append(cur, Head(str)))

\* str.strip().split(): the runs between whitespace, none of them empty
SplitWhitespace(str) ==
    LET pieces == SplitAt(str, "\t", <<>>) IN
    SelectSeq(pieces, LAMBDA x : x # <<>>)

\* int(s) of an optional sign and decimal digits
RECURSIVE ParseNat(_)
ParseNat(s) ==
    IF s = <<>> THEN 0
    ELSE 10 * ParseNat(SubSeq(s, 1, Len(s) - 1))
            + ((CHOOSE k \in 1..10 : Digits[k] = s[Len(s)]) - 1)

ParseInt(s) == IF Head(s) = "-" THEN - ParseNat(Tail(s)) ELSE ParseNat(s)

\* lines 12-15
_hashed2config(config_str) ==
    LET xs == SplitWhitespace(config_str) IN
    [i \in DOMAIN xs |->
        LET ad == SplitAt(xs[i], ",", <<>>) IN <<ParseInt(ad[1]), ParseInt(ad[2])>>]


\* the counts of one population: every pair of total at most t
CcPairs(t) == {p \in (0..t) \X (0..t) : p[1] + p[2] <= t}

\* the configs a config_iter may yield for npops populations: with one
\* population also a count of several digits and a negative count
CcConfigs(npops) ==
    IF npops = 1
    THEN {<<p>> : p \in CcPairs(MaxCount) \cup {<<10 * MaxCount + 1, 0>>, <<-1, 0>>}}
    ELSE {<<p, q>> : p \in CcPairs(1), q \in CcPairs(1)}

\* _CompressedList.append without the lookup of value2uniq
append_NeverFound(cl, value) ==
    LET uniq_idx == Len(cl.uniq_values) + 1 IN
    [uniq_values |-> Append(cl.uniq_values, value),
     value2uniq  |-> [v \in DOMAIN cl.value2uniq \cup {value} |-> uniq_idx],
     index2uniq  |-> Append(cl.index2uniq, uniq_idx)]

\* lines 30-37, _CompressedList.append
append(cl, value) ==
    IF value \in DOMAIN cl.value2uniq
    THEN [cl EXCEPT !.index2uniq = Append(@, cl.value2uniq[value])]
    ELSE LET uniq_idx == Len(cl.uniq_values) + 1 IN
         [uniq_values |-> Append(cl.uniq_values, value),
          value2uniq  |-> [v \in DOMAIN cl.value2uniq \cup {value} |->
                              IF v = value THEN uniq_idx ELSE cl.value2uniq[v]],
          index2uniq  |-> Append(cl.index2uniq, uniq_idx)]

\* s < t for two tuples of integers, as Python compares tuples
RECURSIVE TupleLess(_, _)
TupleLess(s, t) ==
    IF t = <<>> THEN FALSE
    ELSE IF s = <<>> THEN TRUE
    ELSE IF Head(s) # Head(t) THEN Head(s) < Head(t)
    ELSE TupleLess(Tail(s), Tail(t))

\* k1 < k2 for two keys (n, folded)
KeyLess(k1, k2) ==
    \/ TupleLess(k1[1], k2[1])
    \/ k1[1] = k2[1] /\ TupleLess(k1[2], k2[2])

\* min(a, d) of two tuples
TupleMin(a, d) == IF TupleLess(d, a) THEN d ELSE a

\* a key that leaves the folded counts out
SortKey_TotalsOnly(row) ==
    <<[p \in DOMAIN row |-> row[p][1] + row[p][2]], <<>>>>

\* lines 101-112: the key of one row of config_array
SortKey(row) ==
    LET a == [p \in DOMAIN row |-> row[p][1]]
        d == [p \in DOMAIN row |-> row[p][2]]
        n == [p \in DOMAIN row |-> a[p] + d[p]]
    IN  <<n, TupleMin(a, d)>>

\* lines 96-122, sort_configs.  sorted() is stable: row j comes before row
\* i when its key is smaller, or equal with j < i
sort_configs(arr, i2u) ==
    LET keys == [i \in DOMAIN arr |-> SortKey(arr[i])]
        before(i) == {j \in DOMAIN arr :
                        \/ KeyLess(keys[j], keys[i])
                        \/ keys[j] = keys[i] /\ j < i}
        sorted_idxs == [r \in DOMAIN arr |->
                          CHOOSE i \in DOMAIN arr : Cardinality(before(i)) + 1 = r]
        unsorted_idxs == [j \in DOMAIN arr |->
                            CHOOSE i \in DOMAIN arr : sorted_idxs[i] = j]
    IN  [config_array |-> [r \in DOMAIN arr |-> arr[sorted_idxs[r]]],
         index2uniq   |-> [k \in DOMAIN i2u |-> unsorted_idxs[i2u[k]]]]

\* lines 83-84
__getitem__(i) == config_array[index2uniq[i]]

\* lines 86-87
__len__ == Len(index2uniq)

InitCC ==
    /\ \E npops \in {1, 2} :
         \E len \in 0..MaxCcLen :
           \E cs \in [1..len -> CcConfigs(npops)] :
             ccInput = [config_iter |-> cs, npops |-> npops]
    /\ ccSort \in BOOLEAN
    /\ ccPc = "append"
    /\ uniq_values = <<>>
    /\ value2uniq = <<>>
    /\ index2uniq = <<>>
    /\ config_array = <<>>
    /\ IdleET /\ IdleAdmix /\ IdleSH /\ IdleDemo /\ IdleConc /\ IdleObj /\ IdleEtjj

\* lines 68-69 and 45-46: one turn of the loop of from_iter
CC_Append ==
    /\ ccPc = "append"
    /\ Len(index2uniq) < Len(ccInput.config_iter)
    /\ LET config == ccInput.config_iter[Len(index2uniq) + 1]
           cl == append([uniq_values |-> uniq_values, value2uniq |-> value2uniq,
                         index2uniq |-> index2uniq],
                        _config2hashable(config))
       IN  /\ uniq_values' = cl.uniq_values
           /\ value2uniq' = cl.value2uniq
           /\ index2uniq' = cl.index2uniq
    /\ UNCHANGED <<ccInput, ccSort, ccPc, config_array>>
    /\ UNCHANGED <<etVars, admVars, shVars, demoVars, concVars, objVars, pwVars>>

\* lines 70-72 and 54-59: the loop is over, config_array() decodes the
\* unique values
CC_ConfigArray ==
    /\ ccPc = "append"
    /\ Len(index2uniq) = Len(ccInput.config_iter)
    /\ config_array' = [i \in DOMAIN uniq_values |-> _hashed2config(uniq_values[i])]
    /\ ccPc' = "__init__"
    /\ UNCHANGED <<ccInput, ccSort, uniq_values, value2uniq, index2uniq>>
    /\ UNCHANGED <<etVars, admVars, shVars, demoVars, concVars, objVars, pwVars>>

\* lines 76-81, CompressedAlleleCounts.__init__
CC_Init ==
    /\ ccPc = "__init__"
    /\ IF ccSort
       THEN LET s == sort_configs(config_array, index2uniq) IN
            /\ config_array' = s.config_array
            /\ index2uniq' = s.index2uniq
            /\ ccPc' = "sorted"
       ELSE /\ ccPc' = "done"
            /\ UNCHANGED <<config_array, index2uniq>>
    /\ UNCHANGED <<ccInput, ccSort, uniq_values, value2uniq>>
    /\ UNCHANGED <<etVars, admVars, shVars, demoVars, concVars, objVars, pwVars>>

\* lines 96-122: the caller sorts a constructed instance
CC_SortConfigs ==
    /\ ccPc \in {"done", "sorted"}
    /\ LET s == sort_configs(config_array, index2uniq) IN
       /\ config_array' = s.config_array
       /\ index2uniq' = s.index2uniq
    /\ ccPc' = "sorted"
    /\ UNCHANGED <<ccInput, ccSort, uniq_values, value2uniq>>
    /\ UNCHANGED <<etVars, admVars, shVars, demoVars, concVars, objVars, pwVars>>

NextCC ==
    \/ CC_Append
    \/ CC_ConfigArray
    \/ CC_Init
    \/ CC_SortConfigs

SpecCC == InitCC /\ [][NextCC]_vars

\* c2 is c1 with the two counts swapped in every population
IsFoldedCopy(c1, c2) ==
    /\ DOMAIN c1 = DOMAIN c2
    /\ \A p \in DOMAIN c1 : c2[p] = <<c1[p][2], c1[p][1]>>

Totals(row) == [p \in DOMAIN row |-> row[p][1] + row[p][2]]

\* the key the rows are to be ordered by
RowKey(row) ==
    <<Totals(row), TupleMin([p \in DOMAIN row |-> row[p][1]],
                            [p \in DOMAIN row |-> row[p][2]])>>

\* C17: after sort_configs the rows of config_array are in non-decreasing
\* order of the key (totals, min(ancestral counts, derived counts)); the
\* rows of equal totals are one contiguous block, and two different rows
\* that are folded copies of each other are adjacent.
C17_SortedByKey ==
    ccPc = "sorted" =>
      /\ \A i, j \in DOMAIN config_array :
           i < j => ~ KeyLess(RowKey(config_array[j]), RowKey(config_array[i]))
      /\ \A i, j, k \in DOMAIN config_array :
           (i < k /\ k < j /\ Totals(config_array[i]) = Totals(config_array[j]))
             => Totals(config_array[k]) = Totals(config_array[i])
      /\ \A i, j \in DOMAIN config_array :
           (i < j /\ IsFoldedCopy(config_array[i], config_array[j])) => j = i + 1

\* three rows of equal totals were sorted, and the two that are folded
\* copies of each other were not adjacent among the unique values
C17_Witness ==
    /\ ccPc = "sorted"
    /\ Len(config_array) = 3
    /\ \A i \in 1..3 : Totals(config_array[i]) = Totals(config_array[1])
    /\ IsFoldedCopy(_hashed2config(uniq_values[1]), _hashed2config(uniq_values[3]))
    /\ \E i \in 1..2 : IsFoldedCopy(config_array[i], config_array[i + 1])

\* a step on a constructed instance leaves every item as it was
ItemsKept ==
    ccPc \in {"__init__", "done", "sorted"} =>
      /\ Len(index2uniq') = Len(index2uniq)
      /\ \A i \in 1..Len(index2uniq) :
           config_array'[index2uniq'[i]] = config_array[index2uniq[i]]

\* C19: the compressed representation is lossless: a constructed instance
\* has as many items as configs were given and item i is the i-th config
\* given, whether sorted or not; sort_configs changes no item; the rows of
\* config_array are pairwise distinct; and _hashed2config undoes
\* _config2hashable on every config given.
C19_Lossless ==
    /\ [](ccPc \in {"__init__", "done", "sorted"} =>
            /\ __len__ = Len(ccInput.config_iter)
            /\ \A i \in 1..__len__ : __getitem__(i) = ccInput.config_iter[i]
            /\ \A i, j \in DOMAIN config_array :
                 i # j => config_array[i] # config_array[j])
    /\ [](ccPc \in {"append", "__init__", "done", "sorted"} =>
            \A i \in DOMAIN ccInput.config_iter :
               LET c == ccInput.config_iter[i] IN
               _hashed2config(_config2hashable(c)) = c)
    /\ [][ItemsKept]_vars

\* a config was given twice, one count has two digits, and sort_configs
\* moved the rows
C19_Witness ==
    /\ ccPc = "sorted"
    /\ Len(index2uniq) = 3
    /\ Len(config_array) = 2
    /\ config_array[1] # _hashed2config(uniq_values[1])
    /\ \E i \in 1..2 : config_array[i][1][1] >= 10

=============================================================================
